---- MODULE Spec2Model ----
(***************************************************************************)
(* A model of the in-memory cache backend of apidome/cache                 *)
(* (src/mapCache.go): the entry mapping, the per-key timer references,     *)
(* the cancellation channels, and the background expiration and update     *)
(* routines.                                                               *)
(*                                                                         *)
(* Every public method of mapCache takes m.mutex for its whole body, and   *)
(* each background routine takes it for everything it does after it has    *)
(* received its message, so each of them is one atomic action here.  What  *)
(* is outside the lock, the signaler goroutine's c.signal(proceed) after   *)
(* time.After, is an action of its own (TimerFire): the time a timer takes *)
(* is not modelled, a timer may fire at any moment after it is installed.  *)
(***************************************************************************)
EXTENDS Integers, FiniteSets, Sequences, Bags, TLC

\* ---------------------------------------------------------------- bounds

\* The keys callers use.
Keys == {"k1", "k2"}

\* Stored values are the integers 0..MaxVal: an update routine whose update
\* leaves them is not run.
MaxVal == 1

\* Superseded routines that may wait for the mutex at one time.
MaxWaiting == 1

Vals == 0 .. MaxVal

\* The values callers pass.
InputVals == {0, 1}

\* Durations (ttl, period) callers pass: a negative one, zero, a positive one.
Durations == {-1, 0, 1}

\* ------------------------------------------------------- program constants

\* The nil value get returns beside an error.
NilVal == -1

\* The error kinds the backend returns; Nil is "no error".
Nil == "nil"
AlreadyExists == "AlreadyExists"
DoesNotExist == "DoesNotExist"
NonPositivePeriod == "NonPositivePeriod"
NilUpdateFunc == "NilUpdateFunc"

\* The messages of a cacheChannel.
proceed == "proceed"
abort == "abort"

\* Update functions a caller may pass: none (nil), or the integer increment.
NilFunc == "nil"
UpdateFuncs == {NilFunc, "inc"}

\* updateFunc(currVal)
ApplyFunc(fn, v) == IF fn = "inc" THEN v + 1 ELSE v

\* ------------------------------------------------------------------ state
\* A cacheChannel is made by newCacheChannel for one installation of a timer and
\* is referred to by at most one entry of removeChannels or updateChannels, so
\* the channel's state is kept in the entry that refers to it:
\*   st = "armed"    not signaled yet: the signaler sleeps, the routine waits on c.c
\*   st = "proceed"  signaled proceed: the routine is about to take the mutex
\*   st = "closed"   signaled, and the routine is done
\* and fn is the updateFunc its routine captured (NilFunc for an expiration).
\* A channel no entry refers to any more matters only while its routine is still
\* to run: it waits for the mutex with proceed in hand, or it was overwritten
\* unsignaled, so that nothing can abort it before its signaler gives it
\* proceed.  Those routines are the bag waiting.
\* The durations decide only when a signaler fires, which is not modelled, so
\* they are not kept.

VARIABLES
  cacheMap,        \* m.cacheMap: key -> value, defined on the keys present
  removeChannels,  \* m.removeChannels: key -> channel of its expiration routine
  updateChannels,  \* m.updateChannels: key -> channel of its update routine
  waiting,         \* routines still to run whose channel is no longer referred to
  panicked,        \* a background routine has panicked: the process is gone
  last,            \* the last caller operation and what it returned
  mutex,           \* m.mutex: "free", or held by a "caller" or a "thread"
  threads,         \* the caller threads of the concurrent-callers specification
  lru,             \* the lruCache wrapped around the backend: capacity, numberOfItems, list
  lfu,             \* the lfuCache wrapped around the backend: capacity, heap
  dir,             \* the directoryCache: its files and its cleared flag
  redis            \* the RedisCache: the keys it tracks and what the server holds

vars == <<cacheMap, removeChannels, updateChannels, waiting, panicked, last,
          mutex, threads, lru, lfu, dir, redis>>

\* What the mapCache specification does not use: every action of it holds the
\* mutex from its first to its last statement, so the mutex is free between
\* actions; there is no wrapper, and callers are not tracked as threads.
notMapCache == <<mutex, threads, lru, lfu, dir, redis>>
NoThreads == [t \in {} |-> 0]
NoLfu == [made |-> FALSE, capacity |-> 0, heap |-> <<>>]
NoDir == [made |-> FALSE, cleared |-> FALSE]
NoRedis == [made |-> FALSE, keysSet |-> {}, volatile |-> {}]
NoLru == [made |-> FALSE, capacity |-> 0, numberOfItems |-> 0, list |-> <<>>, raw |-> {}]

\* Go map helpers.
Has(m, k) == k \in DOMAIN m
Put(m, k, v) == [x \in DOMAIN m \cup {k} |-> IF x = k THEN v ELSE m[x]]
Delete(m, k) == [x \in DOMAIN m \ {k} |-> m[x]]
EmptyMap == [x \in {} |-> 0]

\* The mapCache object as one value, so the unexported methods compose.
Self == [cacheMap |-> cacheMap, removeChannels |-> removeChannels,
         updateChannels |-> updateChannels, waiting |-> waiting]

NewMapCache ==
  [cacheMap |-> EmptyMap, removeChannels |-> EmptyMap, updateChannels |-> EmptyMap,
   waiting |-> EmptyBag]

\* ----------------------------------------------------------- cacheChannel

newCacheChannel(fn) == [st |-> "armed", fn |-> fn]

\* c.signal(msg): delivered at most once per channel.  abort makes the waiting
\* routine return; proceed leaves it about to take the mutex.
signal(c, msg) ==
  IF c.st # "armed" THEN c
  ELSE IF msg = abort THEN [c EXCEPT !.st = "closed"]
  ELSE [c EXCEPT !.st = "proceed"]

\* The routine of a channel that loses its last reference: it stays only if it
\* holds proceed.
Orphan(kind, key, c) ==
  IF c.st = "proceed" THEN SetToBag({[kind |-> kind, key |-> key, fn |-> c.fn]}) ELSE EmptyBag

\* m.removeChannels[key] = c and m.updateChannels[key] = c overwrite the
\* reference chans holds for key without signaling the channel it referred to:
\* unless that channel is closed its routine stays, and runs once its signaler
\* has fired.
Overwritten(kind, key, chans) ==
  IF Has(chans, key) /\ chans[key].st # "closed"
  THEN SetToBag({[kind |-> kind, key |-> key, fn |-> chans[key].fn]})
  ELSE EmptyBag

\* ------------------------------------------------------ unexported methods
\* Each returns the object after the call (s) and the error (err).

\* store that writes before it looks.
store_overwrites(s, key, val) ==
  IF Has(s.cacheMap, key)
  THEN [s |-> [s EXCEPT !.cacheMap = Put(s.cacheMap, key, val)], err |-> AlreadyExists]
  ELSE [s |-> [s EXCEPT !.cacheMap = Put(s.cacheMap, key, val)], err |-> Nil]

store(s, key, val) ==
  IF Has(s.cacheMap, key)
  THEN [s |-> s, err |-> AlreadyExists]
  ELSE [s |-> [s EXCEPT !.cacheMap = Put(s.cacheMap, key, val)], err |-> Nil]

get(s, key) ==
  IF ~Has(s.cacheMap, key)
  THEN [val |-> NilVal, err |-> DoesNotExist]
  ELSE [val |-> s.cacheMap[key], err |-> Nil]

\* remove without the lookup that makes it fail on an absent key.
remove_unchecked(s, key) ==
  LET w1 == IF Has(s.removeChannels, key)
            THEN Orphan("expire", key, signal(s.removeChannels[key], abort))
            ELSE EmptyBag
      w2 == IF Has(s.updateChannels, key)
            THEN Orphan("update", key, signal(s.updateChannels[key], abort))
            ELSE EmptyBag
  IN [s |-> [cacheMap |-> Delete(s.cacheMap, key),
             removeChannels |-> Delete(s.removeChannels, key),
             updateChannels |-> Delete(s.updateChannels, key),
             waiting |-> s.waiting (+) w1 (+) w2],
      err |-> Nil]

remove(s, key) ==
  IF get(s, key).err # Nil
  THEN [s |-> s, err |-> get(s, key).err]
  ELSE LET w1 == IF Has(s.removeChannels, key)
                 THEN Orphan("expire", key, signal(s.removeChannels[key], abort))
                 ELSE EmptyBag
           w2 == IF Has(s.updateChannels, key)
                 THEN Orphan("update", key, signal(s.updateChannels[key], abort))
                 ELSE EmptyBag
       IN [s |-> [cacheMap |-> Delete(s.cacheMap, key),
                  removeChannels |-> Delete(s.removeChannels, key),
                  updateChannels |-> Delete(s.updateChannels, key),
                  waiting |-> s.waiting (+) w1 (+) w2],
           err |-> Nil]

\* replace that stores the value also when the key was absent.
replace_upserts(s, key, val) ==
  LET r == remove(s, key)
  IN IF r.err # Nil THEN store(s, key, val)
     ELSE store(r.s, key, val)

replace(s, key, val) ==
  LET r == remove(s, key)
  IN IF r.err # Nil THEN [s |-> s, err |-> r.err]
     ELSE store(r.s, key, val)

RECURSIVE clearKeys(_, _)
clearKeys(s, ks) ==
  IF ks = {} THEN s
  ELSE LET key == CHOOSE k \in ks : TRUE
       IN clearKeys(remove(s, key).s, ks \ {key})

clear(s) == [s |-> clearKeys(s, DOMAIN s.cacheMap), err |-> Nil]

keys(s) == DOMAIN s.cacheMap

\* storeWithExpiration that checks ttl only after it has stored.
storeWithExpiration_lateCheck(s, key, val, ttl) ==
  LET r == store(s, key, val)
  IN IF r.err # Nil THEN [s |-> s, err |-> r.err]
     ELSE IF ttl <= 0 THEN [s |-> r.s, err |-> NonPositivePeriod]
     ELSE [s |-> [r.s EXCEPT !.removeChannels =
                    Put(r.s.removeChannels, key, newCacheChannel(NilFunc)),
                  !.waiting = r.s.waiting (+) Overwritten("expire", key, r.s.removeChannels)],
           err |-> Nil]

storeWithExpiration(s, key, val, ttl) ==
  IF ttl <= 0 THEN [s |-> s, err |-> NonPositivePeriod]
  ELSE LET r == store(s, key, val)
       IN IF r.err # Nil THEN [s |-> s, err |-> r.err]
          ELSE [s |-> [r.s EXCEPT !.removeChannels =
                         Put(r.s.removeChannels, key, newCacheChannel(NilFunc)),
                       !.waiting = r.s.waiting
                                     (+) Overwritten("expire", key, r.s.removeChannels)],
                err |-> Nil]

replaceWithExpiration(s, key, val, ttl) ==
  IF ttl <= 0 THEN [s |-> s, err |-> NonPositivePeriod]
  ELSE LET r == remove(s, key)
       IN IF r.err # Nil THEN [s |-> s, err |-> r.err]
          ELSE storeWithExpiration(r.s, key, val, ttl)

expire(s, key, ttl) ==
  IF ttl <= 0 THEN [s |-> s, err |-> NonPositivePeriod]
  ELSE LET g == get(s, key)
       IN IF g.err # Nil THEN [s |-> s, err |-> g.err]
          ELSE LET r == remove(s, key)
               IN IF r.err # Nil THEN [s |-> s, err |-> r.err]
                  ELSE storeWithExpiration(r.s, key, g.val, ttl)

\* storeWithUpdate that starts the update routine whatever store returned.
storeWithUpdate_alwaysArms(s, key, initialValue, updateFunc, period) ==
  IF updateFunc = NilFunc THEN [s |-> s, err |-> NilUpdateFunc]
  ELSE IF period <= 0 THEN [s |-> s, err |-> NonPositivePeriod]
  ELSE LET r == store(s, key, initialValue)
       IN [s |-> [r.s EXCEPT !.updateChannels =
                    Put(r.s.updateChannels, key, newCacheChannel(updateFunc)),
                  !.waiting = r.s.waiting (+) Overwritten("update", key, r.s.updateChannels)],
           err |-> r.err]

storeWithUpdate(s, key, initialValue, updateFunc, period) ==
  IF updateFunc = NilFunc THEN [s |-> s, err |-> NilUpdateFunc]
  ELSE IF period <= 0 THEN [s |-> s, err |-> NonPositivePeriod]
  ELSE LET r == store(s, key, initialValue)
       IN IF r.err # Nil THEN [s |-> s, err |-> r.err]
          ELSE [s |-> [r.s EXCEPT !.updateChannels =
                         Put(r.s.updateChannels, key, newCacheChannel(updateFunc)),
                       !.waiting = r.s.waiting
                                     (+) Overwritten("update", key, r.s.updateChannels)],
                err |-> Nil]

replaceWithUpdate(s, key, initialValue, updateFunc, period) ==
  IF updateFunc = NilFunc THEN [s |-> s, err |-> NilUpdateFunc]
  ELSE IF period <= 0 THEN [s |-> s, err |-> NonPositivePeriod]
  ELSE LET r == remove(s, key)
       IN IF r.err # Nil THEN [s |-> s, err |-> r.err]
          ELSE storeWithUpdate(r.s, key, initialValue, updateFunc, period)

\* ----------------------------------------------------- background routines
\* What a routine does once it holds the mutex, having received proceed.

expireRoutine(s, key) == [s EXCEPT !.cacheMap = Delete(s.cacheMap, key)]

\* panic: one of the three calls returned an error.  The period the routine
\* captured was positive, or storeWithUpdate would not have started it.
updateRoutine(s, key, updateFunc) ==
  LET g == get(s, key)
      r == remove(s, key)
      w == storeWithUpdate(r.s, key, ApplyFunc(updateFunc, g.val), updateFunc, 1)
  IN IF g.err # Nil THEN [s |-> s, panic |-> TRUE]
     ELSE IF r.err # Nil THEN [s |-> r.s, panic |-> TRUE]
     ELSE [s |-> w.s, panic |-> w.err # Nil]

\* ---------------------------------------------------------------- actions

Commit(s) ==
  /\ BagCardinality(s.waiting) <= MaxWaiting
  /\ cacheMap' = s.cacheMap
  /\ removeChannels' = s.removeChannels
  /\ updateChannels' = s.updateChannels
  /\ waiting' = s.waiting

\* The record of a caller operation: the call (op, key, and ttl or period and
\* updateFunc where it has them), whether key was present when it was made (had),
\* what it returned (err, val), and whether it left the object as it was (same).
Returned(op, key, ttl, fn, err, val, s) ==
  [op |-> op, key |-> key, ttl |-> ttl, fn |-> fn, had |-> Has(cacheMap, key),
   err |-> err, val |-> val, same |-> (s = Self)]

Init ==
  /\ cacheMap = NewMapCache.cacheMap
  /\ removeChannels = NewMapCache.removeChannels
  /\ updateChannels = NewMapCache.updateChannels
  /\ waiting = NewMapCache.waiting
  /\ panicked = FALSE
  /\ mutex = "free" /\ threads = NoThreads /\ lru = NoLru /\ lfu = NoLfu /\ dir = NoDir /\ redis = NoRedis
  /\ last = [op |-> "none", key |-> "none", ttl |-> 0, fn |-> NilFunc, had |-> FALSE,
             err |-> Nil, val |-> NilVal, same |-> TRUE]

Store(key, val) ==
  /\ ~panicked
  /\ UNCHANGED notMapCache
  /\ LET r == store(Self, key, val)
     IN Commit(r.s) /\ last' = Returned("Store", key, 0, NilFunc, r.err, NilVal, r.s)
  /\ UNCHANGED panicked

\* Get that installs a fresh expiration timer for a time-limited key.
Get_resetsTimer(key) ==
  /\ ~panicked
  /\ UNCHANGED notMapCache
  /\ LET g == get(Self, key)
     IN last' = Returned("Get", key, 0, NilFunc, g.err, g.val, Self)
  /\ removeChannels' = IF Has(removeChannels, key)
                       THEN Put(removeChannels, key, newCacheChannel(NilFunc))
                       ELSE removeChannels
  /\ UNCHANGED <<cacheMap, updateChannels, waiting, panicked>>

Get(key) ==
  /\ ~panicked
  /\ UNCHANGED notMapCache
  /\ LET g == get(Self, key)
     IN last' = Returned("Get", key, 0, NilFunc, g.err, g.val, Self)
  /\ UNCHANGED <<cacheMap, removeChannels, updateChannels, waiting, panicked>>

Remove(key) ==
  /\ ~panicked
  /\ UNCHANGED notMapCache
  /\ LET r == remove(Self, key)
     IN Commit(r.s) /\ last' = Returned("Remove", key, 0, NilFunc, r.err, NilVal, r.s)
  /\ UNCHANGED panicked

Replace(key, val) ==
  /\ ~panicked
  /\ UNCHANGED notMapCache
  /\ LET r == replace(Self, key, val)
     IN Commit(r.s) /\ last' = Returned("Replace", key, 0, NilFunc, r.err, NilVal, r.s)
  /\ UNCHANGED panicked

Clear ==
  /\ ~panicked
  /\ UNCHANGED notMapCache
  /\ LET r == clear(Self)
     IN Commit(r.s) /\ last' = Returned("Clear", "none", 0, NilFunc, r.err, NilVal, r.s)
  /\ UNCHANGED panicked

KeysOp ==
  /\ ~panicked
  /\ UNCHANGED notMapCache
  /\ last' = Returned("Keys", "none", 0, NilFunc, Nil, NilVal, Self)
  /\ UNCHANGED <<cacheMap, removeChannels, updateChannels, waiting, panicked>>

StoreWithExpiration(key, val, ttl) ==
  /\ ~panicked
  /\ UNCHANGED notMapCache
  /\ LET r == storeWithExpiration(Self, key, val, ttl)
     IN Commit(r.s) /\ last' = Returned("StoreWithExpiration", key, ttl, NilFunc, r.err, NilVal, r.s)
  /\ UNCHANGED panicked

ReplaceWithExpiration(key, val, ttl) ==
  /\ ~panicked
  /\ UNCHANGED notMapCache
  /\ LET r == replaceWithExpiration(Self, key, val, ttl)
     IN Commit(r.s) /\ last' = Returned("ReplaceWithExpiration", key, ttl, NilFunc, r.err, NilVal, r.s)
  /\ UNCHANGED panicked

Expire(key, ttl) ==
  /\ ~panicked
  /\ UNCHANGED notMapCache
  /\ LET r == expire(Self, key, ttl)
     IN Commit(r.s) /\ last' = Returned("Expire", key, ttl, NilFunc, r.err, NilVal, r.s)
  /\ UNCHANGED panicked

StoreWithUpdate(key, val, fn, period) ==
  /\ ~panicked
  /\ UNCHANGED notMapCache
  /\ LET r == storeWithUpdate(Self, key, val, fn, period)
     IN Commit(r.s) /\ last' = Returned("StoreWithUpdate", key, period, fn, r.err, NilVal, r.s)
  /\ UNCHANGED panicked

ReplaceWithUpdate(key, val, fn, period) ==
  /\ ~panicked
  /\ UNCHANGED notMapCache
  /\ LET r == replaceWithUpdate(Self, key, val, fn, period)
     IN Commit(r.s) /\ last' = Returned("ReplaceWithUpdate", key, period, fn, r.err, NilVal, r.s)
  /\ UNCHANGED panicked

\* expireSignalerRoutine of key's current expiration timer: time.After(ttl) has
\* elapsed, c.signal(proceed).
ExpireTimerFire(key) ==
  /\ ~panicked
  /\ UNCHANGED notMapCache
  /\ Has(removeChannels, key)
  /\ removeChannels[key].st = "armed"
  /\ removeChannels' = Put(removeChannels, key, signal(removeChannels[key], proceed))
  /\ UNCHANGED <<cacheMap, updateChannels, waiting, panicked, last>>

\* updateSignalerRoutine of key's current update timer.
UpdateTimerFire(key) ==
  /\ ~panicked
  /\ UNCHANGED notMapCache
  /\ Has(updateChannels, key)
  /\ updateChannels[key].st = "armed"
  /\ updateChannels' = Put(updateChannels, key, signal(updateChannels[key], proceed))
  /\ UNCHANGED <<cacheMap, removeChannels, waiting, panicked, last>>

\* The expiration routine of the channel removeChannels refers to for key takes
\* the mutex and runs to its end.
ExpireRoutine(key) ==
  /\ ~panicked
  /\ UNCHANGED notMapCache
  /\ Has(removeChannels, key)
  /\ removeChannels[key].st = "proceed"
  /\ Commit(expireRoutine(
       [Self EXCEPT !.removeChannels[key].st = "closed"], key))
  /\ UNCHANGED <<panicked, last>>

\* The same, of a channel that removeChannels no longer refers to.
SupersededExpireRoutine(key) ==
  /\ ~panicked
  /\ UNCHANGED notMapCache
  /\ LET me == [kind |-> "expire", key |-> key, fn |-> NilFunc]
     IN /\ BagIn(me, waiting)
        /\ Commit(expireRoutine(
             [Self EXCEPT !.waiting = waiting (-) SetToBag({me})], key))
  /\ UNCHANGED <<panicked, last>>

\* The update is outside the model's values: the routine is not run.
InVals(key, fn) == Has(cacheMap, key) => ApplyFunc(fn, cacheMap[key]) \in Vals

\* The update routine of the channel updateChannels refers to for key takes the
\* mutex and runs to its end.
UpdateRoutine(key) ==
  /\ ~panicked
  /\ UNCHANGED notMapCache
  /\ Has(updateChannels, key)
  /\ updateChannels[key].st = "proceed"
  /\ InVals(key, updateChannels[key].fn)
  /\ LET r == updateRoutine([Self EXCEPT !.updateChannels[key].st = "closed"],
                            key, updateChannels[key].fn)
     IN Commit(r.s) /\ panicked' = r.panic
  /\ UNCHANGED last

\* The same, of a channel that updateChannels no longer refers to.
SupersededUpdateRoutine(key, fn) ==
  /\ ~panicked
  /\ UNCHANGED notMapCache
  /\ InVals(key, fn)
  /\ LET me == [kind |-> "update", key |-> key, fn |-> fn]
     IN /\ BagIn(me, waiting)
        /\ LET r == updateRoutine([Self EXCEPT !.waiting = waiting (-) SetToBag({me})],
                                  key, fn)
           IN Commit(r.s) /\ panicked' = r.panic
  /\ UNCHANGED last

Next ==
  \/ \E key \in Keys, val \in InputVals : Store(key, val)
  \/ \E key \in Keys : Get(key)
  \/ \E key \in Keys : Remove(key)
  \/ \E key \in Keys, val \in InputVals : Replace(key, val)
  \/ Clear
  \/ KeysOp
  \/ \E key \in Keys, val \in InputVals, ttl \in Durations : StoreWithExpiration(key, val, ttl)
  \/ \E key \in Keys, val \in InputVals, ttl \in Durations : ReplaceWithExpiration(key, val, ttl)
  \/ \E key \in Keys, ttl \in Durations : Expire(key, ttl)
  \/ \E key \in Keys, val \in InputVals, fn \in UpdateFuncs, period \in Durations :
       StoreWithUpdate(key, val, fn, period)
  \/ \E key \in Keys, val \in InputVals, fn \in UpdateFuncs, period \in Durations :
       ReplaceWithUpdate(key, val, fn, period)
  \/ \E key \in Keys : ExpireTimerFire(key)
  \/ \E key \in Keys : UpdateTimerFire(key)
  \/ \E key \in Keys : ExpireRoutine(key)
  \/ \E key \in Keys : SupersededExpireRoutine(key)
  \/ \E key \in Keys : UpdateRoutine(key)
  \/ \E key \in Keys, fn \in UpdateFuncs : SupersededUpdateRoutine(key, fn)

Spec == Init /\ [][Next]_vars

TypeOK ==
  /\ DOMAIN cacheMap \subseteq Keys
  /\ \A k \in DOMAIN cacheMap : cacheMap[k] \in Vals
  /\ DOMAIN removeChannels \subseteq Keys
  /\ DOMAIN updateChannels \subseteq Keys
  /\ \A k \in DOMAIN removeChannels : removeChannels[k].st \in {"armed", "proceed", "closed"}
  /\ \A k \in DOMAIN updateChannels : updateChannels[k].st \in {"armed", "proceed", "closed"}
  /\ BagCardinality(waiting) <= MaxWaiting
  /\ panicked \in BOOLEAN
  /\ last.key \in Keys \cup {"none"}
  /\ last.ttl \in Durations
  /\ last.fn \in UpdateFuncs
  /\ last.err \in {Nil, AlreadyExists, DoesNotExist, NonPositivePeriod, NilUpdateFunc}
  /\ last.val \in Vals \cup {NilVal}
  /\ last.had \in BOOLEAN /\ last.same \in BOOLEAN

\* ------------------------------------------------- legacy backend (cache.go)
\* The mapCache of src/cache.go.  Its channels are plain Go channels, one per
\* key in removeChannels or updateChannels, never deleted from these maps; the
\* state of a channel and of the one goroutine started with it is
\*   st = "starting"  the goroutine has not evaluated its select yet
\*   st = "select"    the goroutine waits in select: kill message or timer
\*   st = "timer"     time.After has fired: the goroutine is to take the mutex
\*   st = "done"      the expiration goroutine has returned; the channel is open
\*   st = "closed"    killed: the message was received and the channel closed
\* A caller operation holds m.mutex for its whole body and is one action.  One
\* that blocks in killRoutineIfExists never returns and keeps the mutex.

\* errorTypeDoesntExist
DoesntExist == "DoesntExist"

\* What a call that did not return is recorded with.
Blocked == "blocked"
Panic == "panic"

LegacySelf ==
  [cacheMap |-> cacheMap, removeChannels |-> removeChannels,
   updateChannels |-> updateChannels]

\* keyChan <- struct{}{} ; close(keyChan) on one channel: the send is received
\* only by a goroutine in (or on its way to) select; nobody receives from a
\* channel whose goroutine took the timer branch; a send on a closed channel
\* panics.
killChannel(c) ==
  IF c.st \in {"starting", "select"} THEN [c |-> [c EXCEPT !.st = "closed"], out |-> "ok"]
  ELSE IF c.st = "closed" THEN [c |-> c, out |-> Panic]
  ELSE [c |-> c, out |-> Blocked]

killRoutineIfExists(s, key) ==
  LET k1 == IF Has(s.removeChannels, key) THEN killChannel(s.removeChannels[key])
            ELSE [c |-> 0, out |-> "ok"]
      s1 == IF Has(s.removeChannels, key)
            THEN [s EXCEPT !.removeChannels = Put(s.removeChannels, key, k1.c)]
            ELSE s
      k2 == IF Has(s.updateChannels, key) THEN killChannel(s.updateChannels[key])
            ELSE [c |-> 0, out |-> "ok"]
      s2 == IF Has(s.updateChannels, key)
            THEN [s1 EXCEPT !.updateChannels = Put(s1.updateChannels, key, k2.c)]
            ELSE s1
  IN IF k1.out # "ok" THEN [s |-> s1, out |-> k1.out]
     ELSE [s |-> s2, out |-> k2.out]

\* A goroutine reads its channel from the map without the mutex when it
\* evaluates its select: a write to that map while one has not done so yet is
\* a data race.
Starting(chans) == \E k \in DOMAIN chans : chans[k].st = "starting"

runExpirationRoutine(s, key, ttl) ==
  LET k == killRoutineIfExists(s, key)
  IN IF k.out # "ok" THEN [s |-> k.s, out |-> k.out, race |-> FALSE]
     ELSE [s |-> [k.s EXCEPT !.removeChannels =
                    Put(k.s.removeChannels, key, [st |-> "starting", fn |-> NilFunc])],
           out |-> "ok", race |-> Starting(k.s.removeChannels)]

runUpdateRoutine(s, key, updateFunc, period) ==
  LET k == killRoutineIfExists(s, key)
  IN IF k.out # "ok" THEN [s |-> k.s, out |-> k.out, race |-> FALSE]
     ELSE [s |-> [k.s EXCEPT !.updateChannels =
                    Put(k.s.updateChannels, key, [st |-> "starting", fn |-> updateFunc])],
           out |-> "ok", race |-> Starting(k.s.updateChannels)]

\* The methods: the object after the call (s), the error (err), whether the
\* call returned (out), and whether it raced with a starting goroutine (race).
Done(s, err) == [s |-> s, err |-> err, out |-> "ok", race |-> FALSE]

legacyStoreWithExpiration(s, key, val, ttl) ==
  IF Has(s.cacheMap, key) THEN Done(s, AlreadyExists)
  ELSE LET s1 == [s EXCEPT !.cacheMap = Put(s.cacheMap, key, val)]
           r == runExpirationRoutine(s1, key, ttl)
       IN IF ttl > 0 THEN [s |-> r.s, err |-> Nil, out |-> r.out, race |-> r.race]
          ELSE Done(s1, Nil)

legacyStore(s, key, val) == legacyStoreWithExpiration(s, key, val, 0)

legacyStoreWithUpdate(s, key, initialValue, updateFunc, period) ==
  IF Has(s.cacheMap, key) THEN Done(s, AlreadyExists)
  ELSE IF updateFunc = NilFunc THEN Done(s, NilUpdateFunc)
  ELSE IF period <= 0 THEN Done(s, NonPositivePeriod)
  ELSE LET r == runUpdateRoutine([s EXCEPT !.cacheMap = Put(s.cacheMap, key, initialValue)],
                                 key, updateFunc, period)
       IN [s |-> r.s, err |-> Nil, out |-> r.out, race |-> r.race]

legacyGet(s, key) ==
  IF ~Has(s.cacheMap, key) THEN [val |-> NilVal, err |-> DoesntExist]
  ELSE [val |-> s.cacheMap[key], err |-> Nil]

legacyReplace(s, key, value, ttl) ==
  IF ~Has(s.cacheMap, key) THEN Done(s, DoesntExist)
  ELSE LET r == runExpirationRoutine(s, key, ttl)
       IN IF r.out # "ok" THEN [s |-> r.s, err |-> Nil, out |-> r.out, race |-> FALSE]
          ELSE [s |-> [r.s EXCEPT !.cacheMap = Put(r.s.cacheMap, key, value)],
                err |-> Nil, out |-> "ok", race |-> r.race]

legacyExpire(s, key, ttl) ==
  IF ~Has(s.cacheMap, key) THEN Done(s, DoesntExist)
  ELSE IF ttl > 0
       THEN LET r == runExpirationRoutine(s, key, ttl)
            IN [s |-> r.s, err |-> Nil, out |-> r.out, race |-> r.race]
       ELSE Done([s EXCEPT !.cacheMap = Delete(s.cacheMap, key)], Nil)

legacyRemove(s, key) ==
  IF ~Has(s.cacheMap, key) THEN Done(s, DoesntExist)
  ELSE LET k == killRoutineIfExists(s, key)
       IN IF k.out # "ok" THEN [s |-> k.s, err |-> Nil, out |-> k.out, race |-> FALSE]
          ELSE Done([k.s EXCEPT !.cacheMap = Delete(k.s.cacheMap, key)], Nil)

\* A caller operation, from m.mutex.Lock() to its return: r is what its method
\* does.  A call that races may end the process (the runtime's "concurrent map
\* read and map write"); one that panics ends it; one that blocks keeps the
\* mutex.
LegacyCall(op, key, ttl, fn, r, val) ==
  /\ cacheMap' = r.s.cacheMap
  /\ removeChannels' = r.s.removeChannels
  /\ updateChannels' = r.s.updateChannels
  /\ mutex' = IF r.out = Blocked THEN "caller" ELSE "free"
  /\ \E crash \in (IF r.race THEN BOOLEAN ELSE {FALSE}) :
       panicked' = (r.out = Panic \/ crash)
  /\ last' = [op |-> op, key |-> key, ttl |-> ttl, fn |-> fn,
              had |-> Has(cacheMap, key),
              err |-> IF r.out = "ok" THEN r.err ELSE r.out,
              val |-> val, same |-> (r.s = LegacySelf)]
  /\ UNCHANGED <<waiting, threads, lru, lfu, dir, redis>>

LegacyInit ==
  /\ cacheMap = EmptyMap /\ removeChannels = EmptyMap /\ updateChannels = EmptyMap
  /\ waiting = EmptyBag
  /\ panicked = FALSE
  /\ mutex = "free" /\ threads = NoThreads /\ lru = NoLru /\ lfu = NoLfu /\ dir = NoDir /\ redis = NoRedis
  /\ last = [op |-> "none", key |-> "none", ttl |-> 0, fn |-> NilFunc, had |-> FALSE,
             err |-> Nil, val |-> NilVal, same |-> TRUE]

LegacyStore(key, val) ==
  /\ ~panicked /\ mutex = "free"
  /\ LegacyCall("Store", key, 0, NilFunc, legacyStore(LegacySelf, key, val), NilVal)

LegacyStoreWithExpiration(key, val, ttl) ==
  /\ ~panicked /\ mutex = "free"
  /\ LegacyCall("StoreWithExpiration", key, ttl, NilFunc,
                legacyStoreWithExpiration(LegacySelf, key, val, ttl), NilVal)

LegacyStoreWithUpdate(key, val, fn, period) ==
  /\ ~panicked /\ mutex = "free"
  /\ LegacyCall("StoreWithUpdate", key, period, fn,
                legacyStoreWithUpdate(LegacySelf, key, val, fn, period), NilVal)

LegacyGet(key) ==
  /\ ~panicked /\ mutex = "free"
  /\ LET g == legacyGet(LegacySelf, key)
     IN LegacyCall("Get", key, 0, NilFunc, Done(LegacySelf, g.err), g.val)

LegacyReplace(key, val, ttl) ==
  /\ ~panicked /\ mutex = "free"
  /\ LegacyCall("Replace", key, ttl, NilFunc, legacyReplace(LegacySelf, key, val, ttl), NilVal)

LegacyExpire(key, ttl) ==
  /\ ~panicked /\ mutex = "free"
  /\ LegacyCall("Expire", key, ttl, NilFunc, legacyExpire(LegacySelf, key, ttl), NilVal)

LegacyRemove(key) ==
  /\ ~panicked /\ mutex = "free"
  /\ LegacyCall("Remove", key, 0, NilFunc, legacyRemove(LegacySelf, key), NilVal)

legacyBackground == <<waiting, panicked, last, mutex, threads, lru, lfu, dir, redis>>

\* The expiration goroutine of key evaluates its select.
LegacyExpireSelect(key) ==
  /\ ~panicked
  /\ Has(removeChannels, key) /\ removeChannels[key].st = "starting"
  /\ removeChannels' = [removeChannels EXCEPT ![key].st = "select"]
  /\ UNCHANGED <<cacheMap, updateChannels>> /\ UNCHANGED legacyBackground

\* <-time.After(ttl) is chosen.
LegacyExpireTimerFire(key) ==
  /\ ~panicked
  /\ Has(removeChannels, key) /\ removeChannels[key].st = "select"
  /\ removeChannels' = [removeChannels EXCEPT ![key].st = "timer"]
  /\ UNCHANGED <<cacheMap, updateChannels>> /\ UNCHANGED legacyBackground

\* m.mutex.Lock(); delete(m.cacheMap, key); m.mutex.Unlock()
LegacyExpireRoutine(key) ==
  /\ ~panicked
  /\ mutex = "free"
  /\ Has(removeChannels, key) /\ removeChannels[key].st = "timer"
  /\ cacheMap' = Delete(cacheMap, key)
  /\ removeChannels' = [removeChannels EXCEPT ![key].st = "done"]
  /\ UNCHANGED updateChannels /\ UNCHANGED legacyBackground

LegacyUpdateSelect(key) ==
  /\ ~panicked
  /\ Has(updateChannels, key) /\ updateChannels[key].st = "starting"
  /\ updateChannels' = [updateChannels EXCEPT ![key].st = "select"]
  /\ UNCHANGED <<cacheMap, removeChannels>> /\ UNCHANGED legacyBackground

LegacyUpdateTimerFire(key) ==
  /\ ~panicked
  /\ Has(updateChannels, key) /\ updateChannels[key].st = "select"
  /\ updateChannels' = [updateChannels EXCEPT ![key].st = "timer"]
  /\ UNCHANGED <<cacheMap, removeChannels>> /\ UNCHANGED legacyBackground

\* m.cacheMap[key] of an absent key is nil.
legacyCurr(key) == IF Has(cacheMap, key) THEN cacheMap[key] ELSE NilVal

\* m.mutex.Lock(); m.cacheMap[key] = updateFunc(m.cacheMap[key]);
\* m.mutex.Unlock(); and round the loop to the select.
LegacyUpdateRoutine(key) ==
  /\ ~panicked
  /\ mutex = "free"
  /\ Has(updateChannels, key) /\ updateChannels[key].st = "timer"
  /\ ApplyFunc(updateChannels[key].fn, legacyCurr(key)) \in Vals
  /\ cacheMap' = Put(cacheMap, key, ApplyFunc(updateChannels[key].fn, legacyCurr(key)))
  /\ updateChannels' = [updateChannels EXCEPT ![key].st = "starting"]
  /\ UNCHANGED removeChannels /\ UNCHANGED legacyBackground

LegacyNext ==
  \/ \E key \in Keys, val \in InputVals : LegacyStore(key, val)
  \/ \E key \in Keys, val \in InputVals, ttl \in Durations :
       LegacyStoreWithExpiration(key, val, ttl)
  \/ \E key \in Keys, val \in InputVals, fn \in UpdateFuncs, period \in Durations :
       LegacyStoreWithUpdate(key, val, fn, period)
  \/ \E key \in Keys : LegacyGet(key)
  \/ \E key \in Keys, val \in InputVals, ttl \in Durations : LegacyReplace(key, val, ttl)
  \/ \E key \in Keys, ttl \in Durations : LegacyExpire(key, ttl)
  \/ \E key \in Keys : LegacyRemove(key)
  \/ \E key \in Keys : LegacyExpireSelect(key)
  \/ \E key \in Keys : LegacyExpireTimerFire(key)
  \/ \E key \in Keys : LegacyExpireRoutine(key)
  \/ \E key \in Keys : LegacyUpdateSelect(key)
  \/ \E key \in Keys : LegacyUpdateTimerFire(key)
  \/ \E key \in Keys : LegacyUpdateRoutine(key)

\* A step of a background goroutine.
LegacyBackground ==
  \E key \in Keys :
    \/ LegacyExpireSelect(key) \/ LegacyExpireTimerFire(key) \/ LegacyExpireRoutine(key)
    \/ LegacyUpdateSelect(key) \/ LegacyUpdateTimerFire(key) \/ LegacyUpdateRoutine(key)

LegacySpec == LegacyInit /\ [][LegacyNext]_vars

\* ------------------------------------------------------ concurrent callers
\* NumThreads caller threads share one mapCache (src/mapCache.go).  Thread t
\* calls Store, Get and Remove on a key of its own (t itself), at most MaxCalls
\* times.  A call is three steps: m.mutex.Lock(), the unexported method, and the
\* deferred m.mutex.Unlock() with the return.  Go maps are not safe for
\* concurrent use: a method that runs while another thread is between its Lock
\* and its Unlock is a data race, which may end the process.

NumThreads == 2
MaxCalls == 2

Threads == 1 .. NumThreads
ThreadOps == {"Store", "Get", "Remove"}

\* seq, wantErr and wantVal are the thread's key and the call's result in a
\* sequential map: what the calls made so far give when run one after another.
IdleThread ==
  [pc |-> "idle", op |-> "none", val |-> NilVal, err |-> Nil, out |-> NilVal,
   calls |-> 0, seq |-> NilVal, wantErr |-> Nil, wantVal |-> NilVal]

ThreadsInit ==
  /\ cacheMap = NewMapCache.cacheMap
  /\ removeChannels = NewMapCache.removeChannels
  /\ updateChannels = NewMapCache.updateChannels
  /\ waiting = NewMapCache.waiting
  /\ panicked = FALSE
  /\ mutex = "free"
  /\ threads = [t \in Threads |-> IdleThread]
  /\ lru = NoLru /\ lfu = NoLfu /\ dir = NoDir /\ redis = NoRedis
  /\ last = [op |-> "none", key |-> "none", ttl |-> 0, fn |-> NilFunc, had |-> FALSE,
             err |-> Nil, val |-> NilVal, same |-> TRUE]

\* The thread calls a public method.
ThreadCall(t, op, val) ==
  /\ ~panicked
  /\ threads[t].pc = "idle" /\ threads[t].calls < MaxCalls
  /\ threads' = [threads EXCEPT ![t].pc = "calling", ![t].op = op,
                                ![t].val = IF op = "Store" THEN val ELSE NilVal,
                                ![t].calls = @ + 1]
  /\ UNCHANGED <<cacheMap, removeChannels, updateChannels, waiting, panicked, last,
                 mutex, lru, lfu, dir, redis>>

\* m.mutex.Lock() that does not wait for the mutex to be free.
Lock_noExclusion(t) ==
  /\ ~panicked
  /\ threads[t].pc = "calling"
  /\ mutex' = "thread"
  /\ threads' = [threads EXCEPT ![t].pc = "locked"]
  /\ UNCHANGED <<cacheMap, removeChannels, updateChannels, waiting, panicked, last, lru, lfu, dir, redis>>

\* m.mutex.Lock()
Lock(t) ==
  /\ ~panicked
  /\ threads[t].pc = "calling"
  /\ mutex = "free"
  /\ mutex' = "thread"
  /\ threads' = [threads EXCEPT ![t].pc = "locked"]
  /\ UNCHANGED <<cacheMap, removeChannels, updateChannels, waiting, panicked, last, lru, lfu, dir, redis>>

\* The unexported method the call runs, on key: object after, error, value.
method(s, op, key, val) ==
  IF op = "Store" THEN [s |-> store(s, key, val).s, err |-> store(s, key, val).err,
                         val |-> NilVal]
  ELSE IF op = "Remove" THEN [s |-> remove(s, key).s, err |-> remove(s, key).err,
                              val |-> NilVal]
  ELSE [s |-> s, err |-> get(s, key).err, val |-> get(s, key).val]

\* The same call on a sequential map in which the key holds cur (NilVal: absent).
sequential(cur, op, val) ==
  IF op = "Store"
  THEN IF cur = NilVal THEN [cur |-> val, err |-> Nil, val |-> NilVal]
       ELSE [cur |-> cur, err |-> AlreadyExists, val |-> NilVal]
  ELSE IF op = "Remove"
  THEN IF cur = NilVal THEN [cur |-> cur, err |-> DoesNotExist, val |-> NilVal]
       ELSE [cur |-> NilVal, err |-> Nil, val |-> NilVal]
  ELSE IF cur = NilVal THEN [cur |-> cur, err |-> DoesNotExist, val |-> NilVal]
       ELSE [cur |-> cur, err |-> Nil, val |-> cur]

\* Another thread is between its Lock and its Unlock.
Races(t) == \E u \in Threads \ {t} : threads[u].pc \in {"locked", "ran"}

\* m.store(key, val), m.get(key) or m.remove(key)
ThreadBody(t) ==
  /\ ~panicked
  /\ threads[t].pc = "locked"
  /\ LET r == method(Self, threads[t].op, t, threads[t].val)
         q == sequential(threads[t].seq, threads[t].op, threads[t].val)
     IN /\ Commit(r.s)
        /\ threads' = [threads EXCEPT ![t].pc = "ran", ![t].err = r.err, ![t].out = r.val,
                                      ![t].seq = q.cur, ![t].wantErr = q.err,
                                      ![t].wantVal = q.val]
  /\ \E crash \in (IF Races(t) THEN BOOLEAN ELSE {FALSE}) : panicked' = crash
  /\ UNCHANGED <<last, mutex, lru, lfu, dir, redis>>

\* The deferred m.mutex.Unlock(), and the return.
Unlock(t) ==
  /\ ~panicked
  /\ threads[t].pc = "ran"
  /\ mutex' = "free"
  /\ threads' = [threads EXCEPT ![t].pc = "idle"]
  /\ UNCHANGED <<cacheMap, removeChannels, updateChannels, waiting, panicked, last, lru, lfu, dir, redis>>

ThreadsNext ==
  \/ \E t \in Threads, op \in ThreadOps, val \in InputVals : ThreadCall(t, op, val)
  \/ \E t \in Threads : Lock(t)
  \/ \E t \in Threads : ThreadBody(t)
  \/ \E t \in Threads : Unlock(t)

ThreadsSpec == ThreadsInit /\ [][ThreadsNext]_vars

\* ------------------------------------------------------------- lruCache
\* The lruCache of src/unnamed/part_006 around a mapCache backend (storage).
\* The variable lru holds its fields; the backend is cacheMap, removeChannels,
\* updateChannels (the wrapper stores permanent entries only).
\*
\* list is the container/list, front first; a node is [key, own], where own
\* tells that it is the node the backend's lruItem of that key points to.  A
\* node no lruItem points to is only ever reached through Front() and Back().
\* raw is the set of keys the backend held before it was wrapped: their values
\* are not lruItems, so item.(lruItem) gives a nil node for them.

LruKeys == {"k1", "k2", "k3"}
MaxCapacity == 2
MaxList == 4

\* errorTypeCacheNotEmpty
CacheNotEmpty == "CacheNotEmpty"

\* What GetMostRecentlyUsedKey gives when it panics.
NoKey == "none"

\* What a call of a method that does not build gives: nothing.
NoBuild == "does not build"

\* container/list
PushFront(list, node) == <<node>> \o list
RemoveAt(list, i) == [j \in 1 .. Len(list) - 1 |-> IF j < i THEN list[j] ELSE list[j + 1]]
MoveToFront(list, i) == IF i = 0 THEN list ELSE <<list[i]>> \o RemoveAt(list, i)
Back(list) == list[Len(list)]
Front(list) == list[1]

\* The index in list of the node the lruItem of key points to; 0 when that node
\* is not in the list (list.Remove and list.MoveToFront then do nothing).
OwnIndex(list, key) ==
  IF \E i \in DOMAIN list : list[i].key = key /\ list[i].own
  THEN CHOOSE i \in DOMAIN list : list[i].key = key /\ list[i].own
  ELSE 0

\* The backend dropped the item of key: no node is pointed to by it any more.
Disown(list, key) ==
  [i \in DOMAIN list |-> IF list[i].key = key THEN [list[i] EXCEPT !.own = FALSE] ELSE list[i]]

LruSelf ==
  [capacity |-> lru.capacity, numberOfItems |-> lru.numberOfItems, list |-> lru.list,
   raw |-> lru.raw, storage |-> Self]

\* Each method returns the wrapper after the call (l), the error, the value,
\* and whether it panicked.
LruDone(l, err, val) == [l |-> l, err |-> err, val |-> val, panic |-> FALSE]
LruPanic(l) == [l |-> l, err |-> Nil, val |-> NilVal, panic |-> TRUE]

lruStore(l, key, val) ==
  LET pushed == PushFront(l.list, [key |-> key, own |-> TRUE])
      notStored == PushFront(l.list, [key |-> key, own |-> FALSE])
      r == store(l.storage, key, val)
      back == Back(pushed).key
      rr == remove(r.s, back)
  IN IF r.err # Nil
     THEN LruDone([l EXCEPT !.list = RemoveAt(notStored, Len(notStored))], r.err, NilVal)
     ELSE IF l.numberOfItems = l.capacity
     THEN IF rr.err # Nil
          THEN LruDone([l EXCEPT !.list = pushed, !.storage = r.s], rr.err, NilVal)
          ELSE LruDone([l EXCEPT !.list = Disown(pushed, back), !.storage = rr.s,
                                 !.raw = @ \ {back}], Nil, NilVal)
     ELSE LruDone([l EXCEPT !.list = pushed, !.storage = r.s, !.numberOfItems = @ + 1],
                  Nil, NilVal)

lruGet(l, key) ==
  LET g == get(l.storage, key)
  IN IF g.err # Nil THEN LruDone(l, g.err, NilVal)
     ELSE IF key \in l.raw THEN LruPanic(l)
     ELSE LruDone([l EXCEPT !.list = MoveToFront(l.list, OwnIndex(l.list, key))],
                  Nil, g.val)

GetMostRecentlyUsedKey(l) == IF l.list = <<>> THEN NoKey ELSE Front(l.list).key

\* It returns lru.list.Back().value, and a list.Element has no field value (its
\* key is in Value, which GetMostRecentlyUsedKey reads): the method as written
\* does not build, and a call of it gives no key of the list.
GetLeastRecentlyUsedKey(l) == NoBuild

lruRemove(l, key) ==
  LET g == get(l.storage, key)
      r == remove(l.storage, key)
      i == OwnIndex(l.list, key)
  IN IF g.err # Nil THEN LruDone(l, g.err, NilVal)
     ELSE IF r.err # Nil THEN LruDone(l, r.err, NilVal)
     ELSE IF key \in l.raw THEN LruPanic([l EXCEPT !.storage = r.s, !.raw = @ \ {key}])
     ELSE LruDone([l EXCEPT !.storage = r.s,
                            !.list = IF i = 0 THEN l.list ELSE RemoveAt(l.list, i),
                            !.numberOfItems = @ - 1], Nil, NilVal)

lruReplace(l, key, val) ==
  LET r == lruRemove(l, key)
  IN IF r.panic \/ r.err # Nil THEN r
     ELSE lruStore(r.l, key, val)

\* The loop removes the front node only: list.Remove clears the node's next, so
\* node.Next() is nil after the first round.
lruClear(l) ==
  LET c == clear(l.storage)
      emptied == [i \in DOMAIN l.list |-> [l.list[i] EXCEPT !.own = FALSE]]
  IN IF c.err # Nil THEN LruDone(l, c.err, NilVal)
     ELSE LruDone([l EXCEPT !.storage = c.s, !.raw = {},
                            !.list = IF emptied = <<>> THEN <<>> ELSE RemoveAt(emptied, 1)],
                  Nil, NilVal)

lruKeys(l) == keys(l.storage)
lruCount(l) == l.numberOfItems
lruIsFull(l) == l.capacity = l.numberOfItems
lruIsEmpty(l) == l.numberOfItems = 0

\* The backends a caller may hand to NewLruWithCustomCache: a new one, or one
\* it has stored into.
SuppliedCaches == {EmptyMap, Put(EmptyMap, "k1", 0)}

LruInit ==
  /\ cacheMap \in SuppliedCaches
  /\ removeChannels = EmptyMap /\ updateChannels = EmptyMap
  /\ waiting = EmptyBag
  /\ panicked = FALSE
  /\ mutex = "free" /\ threads = NoThreads
  /\ lfu = NoLfu /\ dir = NoDir /\ redis = NoRedis
  /\ lru = [made |-> FALSE, capacity |-> 0, numberOfItems |-> 0, list |-> <<>>, raw |-> {}]
  /\ last = [op |-> "none", key |-> "none", err |-> Nil, val |-> NilVal]

lruUnused == <<removeChannels, updateChannels, waiting, mutex, threads, lfu, dir, redis>>

NewLru(capacity) ==
  /\ ~panicked /\ ~lru.made
  /\ cacheMap' = NewMapCache.cacheMap
  /\ lru' = [made |-> TRUE, capacity |-> capacity, numberOfItems |-> 0, list |-> <<>>,
             raw |-> {}]
  /\ last' = [op |-> "NewLru", key |-> "none", err |-> Nil, val |-> NilVal]
  /\ UNCHANGED panicked /\ UNCHANGED lruUnused

NewLruWithCustomCache(capacity) ==
  /\ ~panicked /\ ~lru.made
  /\ IF Cardinality(keys(Self)) = 0
     THEN /\ lru' = lru
          /\ last' = [op |-> "NewLruWithCustomCache", key |-> "none",
                      err |-> CacheNotEmpty, val |-> NilVal]
     ELSE /\ lru' = [made |-> TRUE, capacity |-> capacity, numberOfItems |-> 0,
                     list |-> <<>>, raw |-> keys(Self)]
          /\ last' = [op |-> "NewLruWithCustomCache", key |-> "none",
                      err |-> Nil, val |-> NilVal]
  /\ UNCHANGED <<cacheMap, panicked>> /\ UNCHANGED lruUnused

\* A method call from lru.mutex.Lock() to its return: r is what the method does.
LruCall(op, key, r) ==
  /\ Len(r.l.list) <= MaxList
  /\ cacheMap' = r.l.storage.cacheMap
  /\ lru' = [lru EXCEPT !.numberOfItems = r.l.numberOfItems, !.list = r.l.list,
                        !.raw = r.l.raw]
  /\ panicked' = r.panic
  /\ last' = [op |-> op, key |-> key, err |-> IF r.panic THEN Panic ELSE r.err,
              val |-> r.val]
  /\ UNCHANGED lruUnused

LruStore(key, val) ==
  /\ ~panicked /\ lru.made
  /\ LruCall("Store", key, lruStore(LruSelf, key, val))

LruGet(key) ==
  /\ ~panicked /\ lru.made
  /\ LruCall("Get", key, lruGet(LruSelf, key))

LruRemove(key) ==
  /\ ~panicked /\ lru.made
  /\ LruCall("Remove", key, lruRemove(LruSelf, key))

LruReplace(key, val) ==
  /\ ~panicked /\ lru.made
  /\ LruCall("Replace", key, lruReplace(LruSelf, key, val))

LruClear ==
  /\ ~panicked /\ lru.made
  /\ LruCall("Clear", "none", lruClear(LruSelf))

\* Keys, Count, IsFull, IsEmpty: they return and change nothing.
LruObserve(op) ==
  /\ ~panicked /\ lru.made
  /\ last' = [op |-> op, key |-> "none", err |-> Nil,
              val |-> IF op = "Keys" THEN Cardinality(lruKeys(LruSelf))
                      ELSE IF op = "Count" THEN lruCount(LruSelf)
                      ELSE IF op = "IsFull" THEN (IF lruIsFull(LruSelf) THEN 1 ELSE 0)
                      ELSE (IF lruIsEmpty(LruSelf) THEN 1 ELSE 0)]
  /\ UNCHANGED <<cacheMap, lru, panicked>> /\ UNCHANGED lruUnused

\* GetMostRecentlyUsedKey, GetLeastRecentlyUsedKey: Front() of an empty list is
\* nil, and reading its Value panics.
LruGetEndKey(op) ==
  /\ ~panicked /\ lru.made
  /\ LET k == IF op = "GetMostRecentlyUsedKey" THEN GetMostRecentlyUsedKey(LruSelf)
              ELSE GetLeastRecentlyUsedKey(LruSelf)
     IN /\ panicked' = (k = NoKey)
        /\ last' = [op |-> op, key |-> k, err |-> IF k = NoKey THEN Panic ELSE Nil,
                    val |-> NilVal]
  /\ UNCHANGED <<cacheMap, lru, lfu, dir, redis>> /\ UNCHANGED lruUnused

LruNext ==
  \/ \E capacity \in 1 .. MaxCapacity : NewLru(capacity)
  \/ \E capacity \in 1 .. MaxCapacity : NewLruWithCustomCache(capacity)
  \/ \E key \in LruKeys, val \in InputVals : LruStore(key, val)
  \/ \E key \in LruKeys : LruGet(key)
  \/ \E key \in LruKeys : LruRemove(key)
  \/ \E key \in LruKeys, val \in InputVals : LruReplace(key, val)
  \/ LruClear
  \/ \E op \in {"Keys", "Count", "IsFull", "IsEmpty"} : LruObserve(op)
  \/ \E op \in {"GetMostRecentlyUsedKey", "GetLeastRecentlyUsedKey"} : LruGetEndKey(op)

LruSpec == LruInit /\ [][LruNext]_vars

\* ------------------------------------------------------------- lfuCache
\* The lfuCache of src/lfuCache.go around a mapCache backend (storage).  The
\* variable lfu holds its fields; the backend is cacheMap.  heap is the lfuHeap
\* slice, index 0 first; an entry is the lfuHeapItem [value, frequency, index] that
\* the backend's lfuItem of the key value points to.

LfuKeys == {"k1", "k2", "k3"}

\* The capacities a caller asks for: 1 .. MaxLfuCapacity.  A heap of three has a
\* root with two children.
MaxLfuCapacity == 3
MaxFrequency == 2

\* lfuHeap as a slice indexed from 0.
At(h, i) == h[i + 1]
Less(h, i, j) == At(h, i).frequency < At(h, j).frequency
\* h[i], h[j] = h[j], h[i]; h[i].index = j; h[j].index = i
Swap(h, i, j) ==
  [x \in DOMAIN h |-> IF x = i + 1 THEN [At(h, j) EXCEPT !.index = j]
                      ELSE IF x = j + 1 THEN [At(h, i) EXCEPT !.index = i]
                      ELSE h[x]]
HeapLen(h) == Len(h)

\* lfuHeap.Push: item.index = n; append.
Push(h, x) == Append(h, [x EXCEPT !.index = HeapLen(h)])

\* lfuHeap.Pop: the last item, its index set to -1, and the slice without it.
Pop(h) ==
  [item |-> [At(h, HeapLen(h) - 1) EXCEPT !.index = -1],
   h |-> SubSeq(h, 1, HeapLen(h) - 1)]

\* container/heap: up(h, j); Go's (j - 1) / 2 is 0 for j = 0.
RECURSIVE up(_, _)
up(h, j) ==
  LET i == IF j = 0 THEN 0 ELSE (j - 1) \div 2
  IN IF i = j \/ ~Less(h, j, i) THEN h ELSE up(Swap(h, i, j), i)

\* container/heap: down(h, i0, n); gives the heap and where the element went.
RECURSIVE down(_, _, _)
down(h, i, n) ==
  LET j1 == 2 * i + 1
      j2 == j1 + 1
      j == IF j2 < n /\ Less(h, j2, j1) THEN j2 ELSE j1
  IN IF j1 >= n THEN [h |-> h, i |-> i]
     ELSE IF ~Less(h, j, i) THEN [h |-> h, i |-> i]
     ELSE down(Swap(h, i, j), j, n)

\* heap.Init: for i := n/2 - 1; i >= 0; i-- { down(h, i, n) }
RECURSIVE heapInitFrom(_, _)
heapInitFrom(h, i) ==
  IF i < 0 THEN h ELSE heapInitFrom(down(h, i, HeapLen(h)).h, i - 1)

heapInit(h) == heapInitFrom(h, (HeapLen(h) \div 2) - 1)

\* heap.Push: h.Push(x); up(h, h.Len() - 1)
heapPush(h, x) == up(Push(h, x), HeapLen(h))

\* heap.Pop: Swap(0, n); down(h, 0, n); h.Pop().  The item popped and the heap
\* left.
heapPop(h) ==
  LET n == HeapLen(h) - 1
  IN Pop(down(Swap(h, 0, n), 0, n).h)

\* heap.Remove(h, i)
heapRemove(h, i) ==
  LET n == HeapLen(h) - 1
      sw == Swap(h, i, n)
      d == down(sw, i, n)
      fixed == IF n = i THEN h
               ELSE IF d.i > i THEN d.h ELSE up(d.h, i)
  IN Pop(fixed).h

\* The index of the heap item of key, -1 when the heap has none.
HeapIndex(h, key) ==
  IF \E i \in DOMAIN h : h[i].value = key
  THEN (CHOOSE i \in DOMAIN h : h[i].value = key) - 1
  ELSE -1

LfuSelf == [capacity |-> lfu.capacity, heap |-> lfu.heap, storage |-> Self]

LfuDone(l, err, val) == [l |-> l, err |-> err, val |-> val]

\* lfuStore that evicts before it pushes the new item.
lfuStore_evictsFirst(l, key, val) ==
  LET r == store(l.storage, key, val)
      p == heapPop(l.heap)
      rr == remove(r.s, p.item.value)
      heapItem == [value |-> key, frequency |-> 0, index |-> 0]
  IN IF r.err # Nil THEN LfuDone(l, r.err, NilVal)
     ELSE IF HeapLen(l.heap) + 1 > l.capacity
     THEN LfuDone([l EXCEPT !.heap = heapPush(p.h, heapItem), !.storage = rr.s], rr.err, NilVal)
     ELSE LfuDone([l EXCEPT !.heap = heapPush(l.heap, heapItem), !.storage = r.s], Nil, NilVal)

lfuStore(l, key, val) ==
  LET heapItem == [value |-> key, frequency |-> 0, index |-> 0]
      r == store(l.storage, key, val)
      pushed == heapPush(l.heap, heapItem)
      p == heapPop(pushed)
      rr == remove(r.s, p.item.value)
  IN IF r.err # Nil THEN LfuDone(l, r.err, NilVal)
     ELSE IF HeapLen(pushed) > l.capacity
     THEN IF rr.err # Nil
          THEN LfuDone([l EXCEPT !.heap = p.h, !.storage = r.s], rr.err, NilVal)
          ELSE LfuDone([l EXCEPT !.heap = p.h, !.storage = rr.s], Nil, NilVal)
     ELSE LfuDone([l EXCEPT !.heap = pushed, !.storage = r.s], Nil, NilVal)

\* lfuGet that leaves the frequency alone.
lfuGet_noCount(l, key) ==
  LET g == get(l.storage, key)
  IN IF g.err # Nil THEN LfuDone(l, g.err, NilVal) ELSE LfuDone(l, Nil, g.val)

\* lfuGet that does not re-establish the heap ordering.
lfuGet_noInit(l, key) ==
  LET g == get(l.storage, key)
      i == HeapIndex(l.heap, key)
      counted == IF i < 0 THEN l.heap
                 ELSE [l.heap EXCEPT ![i + 1].frequency = @ + 1]
  IN IF g.err # Nil THEN LfuDone(l, g.err, NilVal)
     ELSE LfuDone([l EXCEPT !.heap = counted], Nil, g.val)

lfuGet(l, key) ==
  LET g == get(l.storage, key)
      i == HeapIndex(l.heap, key)
      counted == IF i < 0 THEN l.heap
                 ELSE [l.heap EXCEPT ![i + 1].frequency = @ + 1]
  IN IF g.err # Nil THEN LfuDone(l, g.err, NilVal)
     ELSE LfuDone([l EXCEPT !.heap = heapInit(counted)], Nil, g.val)

lfuCount(l) == HeapLen(l.heap)
lfuIsFull(l) == HeapLen(l.heap) >= l.capacity
lfuIsEmpty(l) == HeapLen(l.heap) < 1

GetLeastFrequentlyUsedKey(l) == IF lfuIsEmpty(l) THEN NoKey ELSE At(l.heap, 0).value

\* lfuRemove that leaves the key's item in the heap.
lfuRemove_keepsItem(l, key) ==
  LET g == get(l.storage, key)
      r == remove(l.storage, key)
  IN IF g.err # Nil THEN LfuDone(l, g.err, NilVal)
     ELSE IF r.err # Nil THEN LfuDone(l, r.err, NilVal)
     ELSE LfuDone([l EXCEPT !.storage = r.s], Nil, NilVal)

lfuRemove(l, key) ==
  LET g == get(l.storage, key)
      r == remove(l.storage, key)
      i == HeapIndex(l.heap, key)
  IN IF g.err # Nil THEN LfuDone(l, g.err, NilVal)
     ELSE IF r.err # Nil THEN LfuDone(l, r.err, NilVal)
     ELSE LfuDone([l EXCEPT !.storage = r.s,
                            !.heap = IF i < 0 THEN l.heap ELSE heapRemove(l.heap, i)],
                  Nil, NilVal)

lfuReplace(l, key, val) ==
  LET r == lfuRemove(l, key)
  IN IF r.err # Nil THEN r ELSE lfuStore(r.l, key, val)

\* lfuClear that keeps the heap.
lfuClear_keepsHeap(l) ==
  LET c == clear(l.storage)
  IN IF c.err # Nil THEN LfuDone(l, c.err, NilVal)
     ELSE LfuDone([l EXCEPT !.storage = c.s], Nil, NilVal)

lfuClear(l) ==
  LET c == clear(l.storage)
  IN IF c.err # Nil THEN LfuDone(l, c.err, NilVal)
     ELSE LfuDone([l EXCEPT !.storage = c.s, !.heap = <<>>], Nil, NilVal)

lfuKeys(l) == keys(l.storage)

LfuInit ==
  /\ cacheMap \in SuppliedCaches
  /\ removeChannels = EmptyMap /\ updateChannels = EmptyMap
  /\ waiting = EmptyBag
  /\ panicked = FALSE
  /\ mutex = "free" /\ threads = NoThreads
  /\ lru = NoLru /\ dir = NoDir /\ redis = NoRedis
  /\ lfu = [made |-> FALSE, capacity |-> 0, heap |-> <<>>]
  /\ last = [op |-> "none", key |-> "none", err |-> Nil, val |-> NilVal]

lfuUnused == <<removeChannels, updateChannels, waiting, panicked, mutex, threads, lru, dir, redis>>

NewLfu(capacity) ==
  /\ ~lfu.made
  /\ cacheMap' = NewMapCache.cacheMap
  /\ lfu' = [made |-> TRUE, capacity |-> capacity, heap |-> <<>>]
  /\ last' = [op |-> "NewLfu", key |-> "none", err |-> Nil, val |-> NilVal]
  /\ UNCHANGED lfuUnused

\* NewLfuWithCustomCache that takes any backend.
NewLfuWithCustomCache_noGuard(capacity) ==
  /\ ~lfu.made
  /\ lfu' = [made |-> TRUE, capacity |-> capacity, heap |-> <<>>]
  /\ last' = [op |-> "NewLfuWithCustomCache", key |-> "none", err |-> Nil, val |-> NilVal]
  /\ UNCHANGED cacheMap /\ UNCHANGED lfuUnused

NewLfuWithCustomCache(capacity) ==
  /\ ~lfu.made
  /\ IF Cardinality(keys(Self)) > 0
     THEN /\ lfu' = lfu
          /\ last' = [op |-> "NewLfuWithCustomCache", key |-> "none",
                      err |-> CacheNotEmpty, val |-> NilVal]
     ELSE /\ lfu' = [made |-> TRUE, capacity |-> capacity, heap |-> <<>>]
          /\ last' = [op |-> "NewLfuWithCustomCache", key |-> "none",
                      err |-> Nil, val |-> NilVal]
  /\ UNCHANGED cacheMap /\ UNCHANGED lfuUnused

\* The key a call dropped from the keys it had to hold, NoKey when it dropped
\* none.
Evicted(held, left) ==
  LET gone == (held \ left) \ {NoKey}
  IN IF gone = {} THEN NoKey ELSE CHOOSE e \in gone : TRUE

\* A method call from lfu.mutex.Lock() to its return: r is what the method does.
LfuCall(op, key, r) ==
  /\ cacheMap' = r.l.storage.cacheMap
  /\ lfu' = [lfu EXCEPT !.heap = r.l.heap]
  /\ last' = [op |-> op, key |-> key, err |-> r.err, val |-> r.val,
              evicted |-> Evicted(lfuKeys(LfuSelf) \cup {key}, lfuKeys(r.l))]
  /\ UNCHANGED lfuUnused

LfuStore(key, val) ==
  /\ lfu.made
  /\ LfuCall("Store", key, lfuStore(LfuSelf, key, val))

LfuGet(key) ==
  /\ lfu.made
  /\ \A i \in DOMAIN lfu.heap : lfu.heap[i].value = key => lfu.heap[i].frequency < MaxFrequency
  /\ LfuCall("Get", key, lfuGet(LfuSelf, key))

LfuRemove(key) ==
  /\ lfu.made
  /\ LfuCall("Remove", key, lfuRemove(LfuSelf, key))

LfuReplace(key, val) ==
  /\ lfu.made
  /\ LfuCall("Replace", key, lfuReplace(LfuSelf, key, val))

LfuClear ==
  /\ lfu.made
  /\ LfuCall("Clear", "none", lfuClear(LfuSelf))

\* Keys, Count, IsFull, IsEmpty, GetLeastFrequentlyUsedKey: they return and
\* change nothing.
LfuObserve(op) ==
  /\ lfu.made
  /\ last' = [op |-> op,
              key |-> IF op = "GetLeastFrequentlyUsedKey"
                      THEN GetLeastFrequentlyUsedKey(LfuSelf) ELSE "none",
              err |-> Nil,
              val |-> IF op = "Keys" THEN Cardinality(lfuKeys(LfuSelf))
                      ELSE IF op = "Count" THEN lfuCount(LfuSelf)
                      ELSE IF op = "IsFull" THEN (IF lfuIsFull(LfuSelf) THEN 1 ELSE 0)
                      ELSE IF op = "IsEmpty" THEN (IF lfuIsEmpty(LfuSelf) THEN 1 ELSE 0)
                      ELSE NilVal]
  /\ UNCHANGED <<cacheMap, lfu>> /\ UNCHANGED lfuUnused

LfuNext ==
  \/ \E capacity \in 1 .. MaxLfuCapacity : NewLfu(capacity)
  \/ \E capacity \in 1 .. MaxLfuCapacity : NewLfuWithCustomCache(capacity)
  \/ \E key \in LfuKeys, val \in InputVals : LfuStore(key, val)
  \/ \E key \in LfuKeys : LfuGet(key)
  \/ \E key \in LfuKeys : LfuRemove(key)
  \/ \E key \in LfuKeys, val \in InputVals : LfuReplace(key, val)
  \/ LfuClear
  \/ \E op \in {"Keys", "Count", "IsFull", "IsEmpty", "GetLeastFrequentlyUsedKey"} :
       LfuObserve(op)

LfuSpec == LfuInit /\ [][LfuNext]_vars

\* --------------------------------------------------------- directoryCache
\* The directoryCache of src/unnamed/part_004.  The files of dc.cacheDir are
\* cacheMap (file name -> the value its JSON decodes to), dc.removeChannels and
\* dc.updateChannels are removeChannels and updateChannels, and the variable
\* dir holds dc.cleared.  A routine that holds proceed while its channel is no
\* longer in its map is in the bag waiting, as for mapCache.

\* errorTypeClearedCache, errorTypeInvalidValueType, errorTypeUrecoverableValue
ClearedCache == "ClearedCache"
InvalidValueType == "InvalidValueType"
UnrecoverableValue == "UnrecoverableValue"

\* The errors of json.Marshal and of json.Unmarshal, returned as they are.
MarshalError == "MarshalError"
UnmarshalError == "UnmarshalError"

\* The values verifyValue refuses.  BadVal: its kind is not Struct, Map, Slice
\* or Array.  UnsupportedVal: json.Marshal rejects it (a struct with a channel).
\* UndecodableVal: json.Unmarshal rejects what json.Marshal wrote of it (a
\* struct with a non-nil field of an interface type).  LossyVal: what its JSON
\* decodes to is not DeepEqual to it (a struct with an unexported field).  The
\* integers of InputVals stand for the values that pass, and NilVal for the nil
\* value, on which reflect.TypeOf(val).Kind() panics.
BadVal == -2
UnsupportedVal == -3
UndecodableVal == -4
LossyVal == -5
DirVals == InputVals \cup {NilVal, BadVal, UnsupportedVal, UndecodableVal, LossyVal}

DirSelf ==
  [cacheMap |-> cacheMap, removeChannels |-> removeChannels,
   updateChannels |-> updateChannels, waiting |-> waiting, cleared |-> dir.cleared]

\* Panic: the call did not return, the caller's goroutine panicked.
verifyValue(val) ==
  IF val = NilVal THEN Panic
  ELSE IF val = BadVal THEN InvalidValueType
  ELSE IF val = UnsupportedVal THEN MarshalError
  ELSE IF val = UndecodableVal THEN UnmarshalError
  ELSE IF val = LossyVal THEN UnrecoverableValue
  ELSE Nil

dcStore(s, key, val) ==
  IF s.cleared THEN [s |-> s, err |-> ClearedCache]
  ELSE IF verifyValue(val) # Nil THEN [s |-> s, err |-> verifyValue(val)]
  ELSE IF Has(s.cacheMap, key) THEN [s |-> s, err |-> AlreadyExists]
  ELSE [s |-> [s EXCEPT !.cacheMap = Put(s.cacheMap, key, val)], err |-> Nil]

dcGet(s, key) ==
  IF s.cleared THEN [val |-> NilVal, err |-> ClearedCache]
  ELSE IF ~Has(s.cacheMap, key) THEN [val |-> NilVal, err |-> DoesNotExist]
  ELSE [val |-> s.cacheMap[key], err |-> Nil]

dcRemove(s, key) ==
  IF s.cleared THEN [s |-> s, err |-> ClearedCache]
  ELSE IF ~Has(s.cacheMap, key) THEN [s |-> s, err |-> DoesNotExist]
  ELSE LET w1 == IF Has(s.removeChannels, key)
                 THEN Orphan("expire", key, signal(s.removeChannels[key], abort))
                 ELSE EmptyBag
           w2 == IF Has(s.updateChannels, key)
                 THEN Orphan("update", key, signal(s.updateChannels[key], abort))
                 ELSE EmptyBag
       IN [s |-> [s EXCEPT !.cacheMap = Delete(s.cacheMap, key),
                           !.removeChannels = Delete(s.removeChannels, key),
                           !.updateChannels = Delete(s.updateChannels, key),
                           !.waiting = s.waiting (+) w1 (+) w2],
           err |-> Nil]

dcReplace(s, key, val) ==
  LET r == dcRemove(s, key)
  IN IF r.err # Nil THEN [s |-> s, err |-> r.err]
     ELSE dcStore(r.s, key, val)

RECURSIVE dcClearFiles(_, _)
dcClearFiles(s, files) ==
  IF files = {} THEN s
  ELSE LET finf == CHOOSE f \in files : TRUE
       IN dcClearFiles(dcRemove(s, finf).s, files \ {finf})

dcClear(s) ==
  IF s.cleared THEN [s |-> s, err |-> ClearedCache]
  ELSE [s |-> [dcClearFiles(s, DOMAIN s.cacheMap) EXCEPT !.cleared = TRUE], err |-> Nil]

dcKeys(s) ==
  IF s.cleared THEN [keys |-> {}, err |-> ClearedCache]
  ELSE [keys |-> DOMAIN s.cacheMap, err |-> Nil]

dcStoreWithExpiration(s, key, val, ttl) ==
  IF ttl <= 0 THEN [s |-> s, err |-> NonPositivePeriod]
  ELSE LET r == dcStore(s, key, val)
       IN IF r.err # Nil THEN [s |-> s, err |-> r.err]
          ELSE [s |-> [r.s EXCEPT !.removeChannels =
                         Put(r.s.removeChannels, key, newCacheChannel(NilFunc)),
                       !.waiting = r.s.waiting
                                     (+) Overwritten("expire", key, r.s.removeChannels)],
                err |-> Nil]

dcReplaceWithExpiration(s, key, val, ttl) ==
  IF ttl <= 0 THEN [s |-> s, err |-> NonPositivePeriod]
  ELSE LET r == dcRemove(s, key)
       IN IF r.err # Nil THEN [s |-> s, err |-> r.err]
          ELSE dcStoreWithExpiration(r.s, key, val, ttl)

dcExpire(s, key, ttl) ==
  IF ttl <= 0 THEN [s |-> s, err |-> NonPositivePeriod]
  ELSE LET g == dcGet(s, key)
           r == dcRemove(s, key)
       IN IF g.err # Nil THEN [s |-> s, err |-> g.err]
          ELSE IF r.err # Nil THEN [s |-> s, err |-> r.err]
          ELSE dcStoreWithExpiration(r.s, key, g.val, ttl)

\* storeWithUpdate does not look at updateFunc.
dcStoreWithUpdate(s, key, initialValue, updateFunc, period) ==
  IF period <= 0 THEN [s |-> s, err |-> NonPositivePeriod]
  ELSE LET r == dcStore(s, key, initialValue)
       IN IF r.err # Nil THEN [s |-> s, err |-> r.err]
          ELSE [s |-> [r.s EXCEPT !.updateChannels =
                         Put(r.s.updateChannels, key, newCacheChannel(updateFunc)),
                       !.waiting = r.s.waiting
                                     (+) Overwritten("update", key, r.s.updateChannels)],
                err |-> Nil]

dcReplaceWithUpdate(s, key, initialValue, updateFunc, period) ==
  IF updateFunc = NilFunc THEN [s |-> s, err |-> NilUpdateFunc]
  ELSE IF period <= 0 THEN [s |-> s, err |-> NonPositivePeriod]
  ELSE LET r == dcRemove(s, key)
       IN IF r.err # Nil THEN [s |-> s, err |-> r.err]
          ELSE dcStoreWithUpdate(r.s, key, initialValue, updateFunc, period)

\* What a routine does once it holds the mutex, having received proceed; panic
\* when a call it makes returns an error.
dcExpireRoutine(s, key) ==
  LET r == dcRemove(s, key)
  IN IF s.cleared THEN [s |-> s, panic |-> FALSE]
     ELSE [s |-> r.s, panic |-> r.err # Nil]

\* Calling a nil updateFunc panics, after the remove.
dcUpdateRoutine(s, key, updateFunc) ==
  LET g == dcGet(s, key)
      r == dcRemove(s, key)
      w == dcStoreWithUpdate(r.s, key, ApplyFunc(updateFunc, g.val), updateFunc, 1)
  IN IF s.cleared THEN [s |-> s, panic |-> FALSE]
     ELSE IF g.err # Nil THEN [s |-> s, panic |-> TRUE]
     ELSE IF r.err # Nil THEN [s |-> r.s, panic |-> TRUE]
     ELSE IF updateFunc = NilFunc THEN [s |-> r.s, panic |-> TRUE]
     ELSE [s |-> w.s, panic |-> w.err # Nil]

\* NewDirectoryCache over a directory that does not exist yet.
DirInit ==
  /\ cacheMap = EmptyMap
  /\ removeChannels = EmptyMap /\ updateChannels = EmptyMap
  /\ waiting = EmptyBag
  /\ panicked = FALSE
  /\ mutex = "free" /\ threads = NoThreads
  /\ lru = NoLru /\ lfu = NoLfu /\ redis = NoRedis
  /\ dir = [made |-> TRUE, cleared |-> FALSE]
  /\ last = [op |-> "none", key |-> "none", err |-> Nil, val |-> NilVal, cleared |-> FALSE]

dirUnused == <<mutex, threads, lru, lfu, redis>>

DirCommit(s) ==
  /\ Commit(s)
  /\ dir' = [dir EXCEPT !.cleared = s.cleared]

\* A method call from dc.mutex.Lock() to its return, or to its panic; cleared
\* tells whether the cache had been cleared when the call was made.
DirCall(op, key, r, val) ==
  /\ DirCommit(r.s)
  /\ last' = [op |-> op, key |-> key, err |-> r.err, val |-> val, cleared |-> dir.cleared]
  /\ panicked' = (r.err = Panic) /\ UNCHANGED dirUnused

DirStore(key, val) ==
  /\ ~panicked
  /\ DirCall("Store", key, dcStore(DirSelf, key, val), NilVal)

DirGet(key) ==
  /\ ~panicked
  /\ DirCall("Get", key, [s |-> DirSelf, err |-> dcGet(DirSelf, key).err],
             dcGet(DirSelf, key).val)

DirRemove(key) ==
  /\ ~panicked
  /\ DirCall("Remove", key, dcRemove(DirSelf, key), NilVal)

DirReplace(key, val) ==
  /\ ~panicked
  /\ DirCall("Replace", key, dcReplace(DirSelf, key, val), NilVal)

DirClear ==
  /\ ~panicked
  /\ DirCall("Clear", "none", dcClear(DirSelf), NilVal)

DirKeys ==
  /\ ~panicked
  /\ DirCall("Keys", "none", [s |-> DirSelf, err |-> dcKeys(DirSelf).err],
             Cardinality(dcKeys(DirSelf).keys))

DirStoreWithExpiration(key, val, ttl) ==
  /\ ~panicked
  /\ DirCall("StoreWithExpiration", key, dcStoreWithExpiration(DirSelf, key, val, ttl), NilVal)

DirReplaceWithExpiration(key, val, ttl) ==
  /\ ~panicked
  /\ DirCall("ReplaceWithExpiration", key,
             dcReplaceWithExpiration(DirSelf, key, val, ttl), NilVal)

DirExpire(key, ttl) ==
  /\ ~panicked
  /\ DirCall("Expire", key, dcExpire(DirSelf, key, ttl), NilVal)

DirStoreWithUpdate(key, val, fn, period) ==
  /\ ~panicked
  /\ DirCall("StoreWithUpdate", key, dcStoreWithUpdate(DirSelf, key, val, fn, period), NilVal)

DirReplaceWithUpdate(key, val, fn, period) ==
  /\ ~panicked
  /\ DirCall("ReplaceWithUpdate", key,
             dcReplaceWithUpdate(DirSelf, key, val, fn, period), NilVal)

\* expireSignalerRoutine / updateSignalerRoutine: time.After has elapsed,
\* c.signal(proceed).
DirExpireTimerFire(key) ==
  /\ ~panicked
  /\ Has(removeChannels, key)
  /\ removeChannels[key].st = "armed"
  /\ removeChannels' = Put(removeChannels, key, signal(removeChannels[key], proceed))
  /\ UNCHANGED <<cacheMap, updateChannels, waiting, panicked, last, dir>>
  /\ UNCHANGED dirUnused

DirUpdateTimerFire(key) ==
  /\ ~panicked
  /\ Has(updateChannels, key)
  /\ updateChannels[key].st = "armed"
  /\ updateChannels' = Put(updateChannels, key, signal(updateChannels[key], proceed))
  /\ UNCHANGED <<cacheMap, removeChannels, waiting, panicked, last, dir>>
  /\ UNCHANGED dirUnused

\* The routine of the channel the map refers to for key takes the mutex and
\* runs to its end.
DirExpireRoutine(key) ==
  /\ ~panicked
  /\ Has(removeChannels, key)
  /\ removeChannels[key].st = "proceed"
  /\ LET r == dcExpireRoutine([DirSelf EXCEPT !.removeChannels[key].st = "closed"], key)
     IN DirCommit(r.s) /\ panicked' = r.panic
  /\ UNCHANGED last /\ UNCHANGED dirUnused

DirUpdateRoutine(key) ==
  /\ ~panicked
  /\ Has(updateChannels, key)
  /\ updateChannels[key].st = "proceed"
  /\ InVals(key, updateChannels[key].fn)
  /\ LET r == dcUpdateRoutine([DirSelf EXCEPT !.updateChannels[key].st = "closed"],
                              key, updateChannels[key].fn)
     IN DirCommit(r.s) /\ panicked' = r.panic
  /\ UNCHANGED last /\ UNCHANGED dirUnused

\* The same, of a channel its map no longer refers to.
DirSupersededExpireRoutine(key) ==
  /\ ~panicked
  /\ LET me == [kind |-> "expire", key |-> key, fn |-> NilFunc]
     IN /\ BagIn(me, waiting)
        /\ LET r == dcExpireRoutine(
                      [DirSelf EXCEPT !.waiting = waiting (-) SetToBag({me})], key)
           IN DirCommit(r.s) /\ panicked' = r.panic
  /\ UNCHANGED last /\ UNCHANGED dirUnused

DirSupersededUpdateRoutine(key, fn) ==
  /\ ~panicked
  /\ InVals(key, fn)
  /\ LET me == [kind |-> "update", key |-> key, fn |-> fn]
     IN /\ BagIn(me, waiting)
        /\ LET r == dcUpdateRoutine(
                      [DirSelf EXCEPT !.waiting = waiting (-) SetToBag({me})], key, fn)
           IN DirCommit(r.s) /\ panicked' = r.panic
  /\ UNCHANGED last /\ UNCHANGED dirUnused

\* The calls of the methods, and the steps of the background routines.
DirCaller ==
  \/ \E key \in Keys, val \in DirVals : DirStore(key, val)
  \/ \E key \in Keys : DirGet(key)
  \/ \E key \in Keys : DirRemove(key)
  \/ \E key \in Keys, val \in DirVals : DirReplace(key, val)
  \/ DirClear
  \/ DirKeys
  \/ \E key \in Keys, val \in DirVals, ttl \in Durations :
       DirStoreWithExpiration(key, val, ttl)
  \/ \E key \in Keys, val \in DirVals, ttl \in Durations :
       DirReplaceWithExpiration(key, val, ttl)
  \/ \E key \in Keys, ttl \in Durations : DirExpire(key, ttl)
  \/ \E key \in Keys, val \in DirVals, fn \in UpdateFuncs, period \in Durations :
       DirStoreWithUpdate(key, val, fn, period)
  \/ \E key \in Keys, val \in DirVals, fn \in UpdateFuncs, period \in Durations :
       DirReplaceWithUpdate(key, val, fn, period)

DirBackground ==
  \/ \E key \in Keys : DirExpireTimerFire(key)
  \/ \E key \in Keys : DirUpdateTimerFire(key)
  \/ \E key \in Keys : DirExpireRoutine(key)
  \/ \E key \in Keys : DirUpdateRoutine(key)
  \/ \E key \in Keys : DirSupersededExpireRoutine(key)
  \/ \E key \in Keys, fn \in UpdateFuncs : DirSupersededUpdateRoutine(key, fn)

DirNext == DirCaller \/ DirBackground

DirSpec == DirInit /\ [][DirNext]_vars

\* ------------------------------------------------------------- RedisCache
\* The RedisCache of src/redisCache.go and the redis server it talks to.  The
\* server's keys are cacheMap (key -> the string it holds), redis.volatile is
\* the set of keys the server holds with a time to live, redis.keysSet is
\* r.keysSet and removeChannels is r.removeChannels.  createExpirationRoutine
\* never signals the channel it replaces, so the routine of a replaced channel
\* that has not run yet stays: it is in the bag waiting.  The server always
\* answers; the keys are strings, which fmt.Sprintf("%v", key) leaves as they
\* are.

\* errorTypeRedisError
RedisError == "RedisError"

\* What a Get gives when it fails.
NoString == ""

\* The string the server holds for a value, which Get(...).Result() returns.
RedisString(val) == IF val = 0 THEN "0" ELSE "1"

RedisSelf ==
  [server |-> cacheMap, volatile |-> redis.volatile, keysSet |-> redis.keysSet,
   removeChannels |-> removeChannels, waiting |-> waiting]

\* client.Set(key, val, ttl): ttl 0 stores without a time to live.
redisSet(s, key, val, ttl) ==
  [s EXCEPT !.server = Put(s.server, key, RedisString(val)),
            !.volatile = IF ttl > 0 THEN @ \cup {key} ELSE @ \ {key}]

redisStore(s, key, val, ttl) ==
  [s |-> [redisSet(s, key, val, ttl) EXCEPT !.keysSet = @ \cup {key}], err |-> Nil]

redisGet(s, key) ==
  IF key \notin s.keysSet THEN [val |-> NoString, err |-> DoesNotExist]
  ELSE IF ~Has(s.server, key) THEN [val |-> NoString, err |-> DoesNotExist]
  ELSE [val |-> s.server[key], err |-> Nil]

\* client.Del(key): the key stays in keysSet and its channel in removeChannels.
redisRemove(s, key) ==
  IF key \notin s.keysSet THEN [s |-> s, err |-> DoesNotExist]
  ELSE IF ~Has(s.server, key) THEN [s |-> s, err |-> DoesNotExist]
  ELSE [s |-> [s EXCEPT !.server = Delete(s.server, key), !.volatile = @ \ {key}],
        err |-> Nil]

redisReplace(s, key, val) == redisStore(s, key, val, 0)

\* The loop over keysSet in an order of Go's choosing: removed is the set of
\* keys it removed before the key failing, if one fails.
RECURSIVE redisRemoveAll(_, _)
redisRemoveAll(s, ks) ==
  IF ks = {} THEN s
  ELSE LET key == CHOOSE k \in ks : TRUE
       IN redisRemoveAll(redisRemove(s, key).s, ks \ {key})

redisClear(s, removed) ==
  IF \A key \in s.keysSet : Has(s.server, key)
  THEN [s |-> redisRemoveAll(s, s.keysSet), err |-> Nil]
  ELSE [s |-> redisRemoveAll(s, removed), err |-> DoesNotExist]

redisKeys(s) == s.keysSet

\* The channel replaced in removeChannels is not signalled: its signaler and
\* its routine go on unless the routine has run already.
createExpirationRoutine(s, key) ==
  LET old == IF Has(s.removeChannels, key) /\ s.removeChannels[key].st # "closed"
             THEN SetToBag({[kind |-> "expire", key |-> key, fn |-> NilFunc]})
             ELSE EmptyBag
  IN [s EXCEPT !.removeChannels = Put(s.removeChannels, key, newCacheChannel(NilFunc)),
               !.waiting = s.waiting (+) old]

redisStoreWithExpiration(s, key, val, ttl) ==
  IF ttl <= 0 THEN [s |-> s, err |-> NonPositivePeriod]
  ELSE [s |-> createExpirationRoutine(redisStore(s, key, val, ttl).s, key), err |-> Nil]

redisReplaceWithExpiration(s, key, val, ttl) ==
  IF ttl <= 0 THEN [s |-> s, err |-> NonPositivePeriod]
  ELSE redisStoreWithExpiration(s, key, val, ttl)

\* client.Expire(key, ttl) answers false for a key the server does not hold.
redisExpire(s, key, ttl) ==
  IF ttl <= 0 THEN [s |-> s, err |-> NonPositivePeriod]
  ELSE IF ~Has(s.server, key) THEN [s |-> s, err |-> RedisError]
  ELSE [s |-> createExpirationRoutine([s EXCEPT !.volatile = @ \cup {key}], key),
        err |-> Nil]

\* expireRoutine once it holds the mutex, having received proceed.
redisExpireRoutine(s, key) == [s EXCEPT !.keysSet = @ \ {key}]

RedisInit ==
  /\ cacheMap = EmptyMap
  /\ removeChannels = EmptyMap /\ updateChannels = EmptyMap
  /\ waiting = EmptyBag
  /\ panicked = FALSE
  /\ mutex = "free" /\ threads = NoThreads
  /\ lru = NoLru /\ lfu = NoLfu /\ dir = NoDir
  /\ redis = [made |-> TRUE, keysSet |-> {}, volatile |-> {}]
  /\ last = [op |-> "none", key |-> "none", err |-> Nil, val |-> NoString]

redisUnused == <<updateChannels, panicked, mutex, threads, lru, lfu, dir>>

RedisCommit(s) ==
  /\ BagCardinality(s.waiting) <= MaxWaiting
  /\ cacheMap' = s.server
  /\ removeChannels' = s.removeChannels
  /\ waiting' = s.waiting
  /\ redis' = [redis EXCEPT !.keysSet = s.keysSet, !.volatile = s.volatile]

\* A method call from r.mutex.Lock() to its return.
RedisCall(op, key, r, val) ==
  /\ RedisCommit(r.s)
  /\ last' = [op |-> op, key |-> key, err |-> r.err, val |-> val]
  /\ UNCHANGED redisUnused

RedisStore(key, val) ==
  /\ redis.made
  /\ RedisCall("Store", key, redisStore(RedisSelf, key, val, 0), NoString)

RedisGet(key) ==
  /\ redis.made
  /\ RedisCall("Get", key, [s |-> RedisSelf, err |-> redisGet(RedisSelf, key).err],
               redisGet(RedisSelf, key).val)

RedisRemove(key) ==
  /\ redis.made
  /\ RedisCall("Remove", key, redisRemove(RedisSelf, key), NoString)

RedisReplace(key, val) ==
  /\ redis.made
  /\ RedisCall("Replace", key, redisReplace(RedisSelf, key, val), NoString)

RedisClear ==
  /\ redis.made
  /\ \E removed \in SUBSET {key \in redis.keysSet : Has(cacheMap, key)} :
       RedisCall("Clear", "none", redisClear(RedisSelf, removed), NoString)

RedisKeys ==
  /\ redis.made
  /\ RedisCall("Keys", "none", [s |-> RedisSelf, err |-> Nil], NoString)

RedisStoreWithExpiration(key, val, ttl) ==
  /\ redis.made
  /\ RedisCall("StoreWithExpiration", key,
               redisStoreWithExpiration(RedisSelf, key, val, ttl), NoString)

RedisReplaceWithExpiration(key, val, ttl) ==
  /\ redis.made
  /\ RedisCall("ReplaceWithExpiration", key,
               redisReplaceWithExpiration(RedisSelf, key, val, ttl), NoString)

RedisExpire(key, ttl) ==
  /\ redis.made
  /\ RedisCall("Expire", key, redisExpire(RedisSelf, key, ttl), NoString)

\* The server drops a key whose time to live has run out.
RedisServerExpire(key) ==
  /\ redis.made
  /\ key \in redis.volatile
  /\ cacheMap' = Delete(cacheMap, key)
  /\ redis' = [redis EXCEPT !.volatile = @ \ {key}]
  /\ UNCHANGED <<removeChannels, waiting, last>> /\ UNCHANGED redisUnused

\* expireSignalerRoutine of the channel removeChannels holds for key.
RedisExpireTimerFire(key) ==
  /\ redis.made
  /\ Has(removeChannels, key)
  /\ removeChannels[key].st = "armed"
  /\ removeChannels' = Put(removeChannels, key, signal(removeChannels[key], proceed))
  /\ UNCHANGED <<cacheMap, waiting, last, redis>> /\ UNCHANGED redisUnused

\* expireRoutine of the channel removeChannels holds for key.
RedisExpireRoutine(key) ==
  /\ redis.made
  /\ Has(removeChannels, key)
  /\ removeChannels[key].st = "proceed"
  /\ RedisCommit(redisExpireRoutine(
       [RedisSelf EXCEPT !.removeChannels[key].st = "closed"], key))
  /\ UNCHANGED last /\ UNCHANGED redisUnused

\* The signaler and the routine of a channel that was replaced in
\* removeChannels.
RedisSupersededExpireRoutine(key) ==
  /\ redis.made
  /\ LET me == [kind |-> "expire", key |-> key, fn |-> NilFunc]
     IN /\ BagIn(me, waiting)
        /\ RedisCommit(redisExpireRoutine(
             [RedisSelf EXCEPT !.waiting = waiting (-) SetToBag({me})], key))
  /\ UNCHANGED last /\ UNCHANGED redisUnused

RedisNext ==
  \/ \E key \in Keys, val \in InputVals : RedisStore(key, val)
  \/ \E key \in Keys : RedisGet(key)
  \/ \E key \in Keys : RedisRemove(key)
  \/ \E key \in Keys, val \in InputVals : RedisReplace(key, val)
  \/ RedisClear
  \/ RedisKeys
  \/ \E key \in Keys, val \in InputVals, ttl \in Durations :
       RedisStoreWithExpiration(key, val, ttl)
  \/ \E key \in Keys, val \in InputVals, ttl \in Durations :
       RedisReplaceWithExpiration(key, val, ttl)
  \/ \E key \in Keys, ttl \in Durations : RedisExpire(key, ttl)
  \/ \E key \in Keys : RedisServerExpire(key)
  \/ \E key \in Keys : RedisExpireTimerFire(key)
  \/ \E key \in Keys : RedisExpireRoutine(key)
  \/ \E key \in Keys : RedisSupersededExpireRoutine(key)

RedisSpec == RedisInit /\ [][RedisNext]_vars

\* ------------------------------------------------- wrapper and backend locks
\* NumThreads caller threads share one lfuCache (src/lfuCache.go) and the
\* mapCache it wraps (src/mapCache.go).  A thread calls Store or Remove on the
\* wrapper with a key of WrapperKeys, Keys or GetLeastFrequentlyUsedKey on the
\* wrapper, or StoreWithUpdate or Remove on the backend with DirectKey, at most
\* MaxCalls times.  In this specification mutex is the pair of locks: lfu is
\* lfu.mutex and storage is m.mutex, each the set of the threads holding it.  A
\* call is run statement by statement: taking a lock is a step that waits for
\* the lock, a backend method runs from after m.mutex.Lock() to its return in
\* one step, and a heap operation is one step.  The update routine of DirectKey
\* takes m.mutex when it is free.  The variable last is the wrapper as it was
\* when lfu.mutex was last free.

WrapperKeys == {"k1", "k2"}
DirectKey == "k3"

IdleCaller ==
  [pc |-> "idle", op |-> "none", key |-> NoKey, calls |-> 0, obs |-> {},
   item |-> NoKey, err |-> Nil]

\* The wrapper between two of its locked operations.
Quiescent == [capacity |-> lfu.capacity, heap |-> lfu.heap, storage |-> Self]

WrapperInit ==
  /\ cacheMap = NewMapCache.cacheMap
  /\ removeChannels = NewMapCache.removeChannels
  /\ updateChannels = NewMapCache.updateChannels
  /\ waiting = NewMapCache.waiting
  /\ panicked = FALSE
  /\ mutex = [lfu |-> {}, storage |-> {}]
  /\ threads = [t \in Threads |-> IdleCaller]
  /\ \E capacity \in 1 .. MaxCapacity :
       lfu = [made |-> TRUE, capacity |-> capacity, heap |-> <<>>]
  /\ lru = NoLru /\ dir = NoDir /\ redis = NoRedis
  /\ last = [capacity |-> lfu.capacity, heap |-> <<>>, storage |-> NewMapCache]

wrapperUnused == <<removeChannels, lru, dir, redis>>
backendVars == <<cacheMap, updateChannels, waiting, panicked>>

\* The thread calls a public method of the wrapper or of the backend.  A Remove
\* of DirectKey is called only while the routine its abort may leave waiting
\* for m.mutex fits into MaxWaiting.
WrapperCall(t, op, key) ==
  /\ ~panicked
  /\ threads[t].pc = "idle" /\ threads[t].calls < MaxCalls
  /\ op = "DirectRemove"
       => BagCardinality(waiting)
            + Cardinality({u \in Threads : threads[u].pc # "idle"
                                            /\ threads[u].op = "DirectRemove"}) < MaxWaiting
  /\ threads' = [threads EXCEPT ![t] = [IdleCaller EXCEPT !.pc = "calling", !.op = op,
                                                          !.key = key,
                                                          !.calls = threads[t].calls + 1]]
  /\ UNCHANGED <<mutex, lfu, last>> /\ UNCHANGED backendVars /\ UNCHANGED wrapperUnused

\* lfu.mutex.Lock() of Store and Remove.
WrapperLock(t) ==
  /\ ~panicked
  /\ threads[t].pc = "calling" /\ threads[t].op \in {"Store", "Remove"}
  /\ mutex.lfu = {}
  /\ mutex' = [mutex EXCEPT !.lfu = {t}]
  /\ threads' = [threads EXCEPT ![t].pc = "locked"]
  /\ UNCHANGED <<lfu, last>> /\ UNCHANGED backendVars /\ UNCHANGED wrapperUnused

\* The backend method the thread is about to call, "none" when it is not about
\* to call one: lfu.store calls storage.Store and, to evict, storage.Remove;
\* lfu.remove calls storage.Get and storage.Remove; lfuCache.Keys calls
\* storage.Keys without lfu.mutex.
BackendMethod(c) ==
  IF c.pc = "locked" THEN (IF c.op = "Store" THEN "Store" ELSE "Get")
  ELSE IF c.pc = "evict" THEN "Evict"
  ELSE IF c.pc = "remove" THEN "Remove"
  ELSE IF c.pc = "calling" /\ c.op = "Keys" THEN "Keys"
  ELSE IF c.pc = "calling" /\ c.op \in {"StoreWithUpdate", "DirectRemove"} THEN c.op
  ELSE "none"

\* m.mutex.Lock() of a public method of the backend.
BackendLock(t) ==
  /\ ~panicked
  /\ BackendMethod(threads[t]) # "none"
  /\ mutex.storage = {}
  /\ mutex' = [mutex EXCEPT !.storage = {t}]
  /\ threads' = [threads EXCEPT ![t].pc = "in" \o BackendMethod(threads[t])]
  /\ UNCHANGED <<lfu, last>> /\ UNCHANGED backendVars /\ UNCHANGED wrapperUnused

\* The backend method, its deferred m.mutex.Unlock() and its return to the
\* wrapper or to the caller: the object after, where the thread goes on, its
\* error and what it was given.
BackendReturn(c, s) ==
  IF c.pc = "inStore"
  THEN LET r == store(s, c.key, 0)
       IN [s |-> r.s, pc |-> IF r.err # Nil THEN "done" ELSE "push", err |-> r.err, obs |-> {}]
  ELSE IF c.pc = "inEvict"
  THEN LET r == remove(s, c.item)
       IN [s |-> r.s, pc |-> "done", err |-> r.err, obs |-> {}]
  ELSE IF c.pc = "inGet"
  THEN LET g == get(s, c.key)
       IN [s |-> s, pc |-> IF g.err # Nil THEN "done" ELSE "remove", err |-> g.err, obs |-> {}]
  ELSE IF c.pc = "inRemove"
  THEN LET r == remove(s, c.key)
       IN [s |-> r.s, pc |-> IF r.err # Nil THEN "done" ELSE "heapRemove", err |-> r.err,
           obs |-> {}]
  ELSE IF c.pc = "inKeys"
  THEN [s |-> s, pc |-> "idle", err |-> Nil, obs |-> keys(s)]
  ELSE IF c.pc = "inStoreWithUpdate"
  THEN LET r == storeWithUpdate(s, c.key, 0, "inc", 1)
       IN [s |-> r.s, pc |-> "idle", err |-> r.err, obs |-> {}]
  ELSE LET r == remove(s, c.key)
       IN [s |-> r.s, pc |-> "idle", err |-> r.err, obs |-> {}]

BackendBody(t) ==
  /\ ~panicked
  /\ mutex.storage = {t}
  /\ LET r == BackendReturn(threads[t], Self)
     IN /\ Commit(r.s)
        /\ threads' = [threads EXCEPT ![t].pc = r.pc, ![t].err = r.err, ![t].obs = r.obs]
  /\ mutex' = [mutex EXCEPT !.storage = {}]
  /\ UNCHANGED <<panicked, lfu, last>> /\ UNCHANGED wrapperUnused

\* heap.Push(&lfu.heap, heapItem) and the test of lfu.heap.Len() in lfu.store.
WrapperPush(t) ==
  /\ ~panicked
  /\ threads[t].pc = "push"
  /\ LET pushed == heapPush(lfu.heap, [value |-> threads[t].key, frequency |-> 0, index |-> 0])
     IN /\ lfu' = [lfu EXCEPT !.heap = pushed]
        /\ threads' = [threads EXCEPT
                         ![t].pc = IF HeapLen(pushed) > lfu.capacity THEN "pop" ELSE "done"]
  /\ UNCHANGED <<mutex, last>> /\ UNCHANGED backendVars /\ UNCHANGED wrapperUnused

\* heap.Pop(&lfu.heap) in lfu.store.
WrapperPop(t) ==
  /\ ~panicked
  /\ threads[t].pc = "pop"
  /\ lfu' = [lfu EXCEPT !.heap = heapPop(lfu.heap).h]
  /\ threads' = [threads EXCEPT ![t].pc = "evict", ![t].item = heapPop(lfu.heap).item.value]
  /\ UNCHANGED <<mutex, last>> /\ UNCHANGED backendVars /\ UNCHANGED wrapperUnused

\* The loop of lfu.remove over lfu.heap with its heap.Remove.
WrapperHeapRemove(t) ==
  /\ ~panicked
  /\ threads[t].pc = "heapRemove"
  /\ LET i == HeapIndex(lfu.heap, threads[t].key)
     IN lfu' = [lfu EXCEPT !.heap = IF i < 0 THEN lfu.heap ELSE heapRemove(lfu.heap, i)]
  /\ threads' = [threads EXCEPT ![t].pc = "done"]
  /\ UNCHANGED <<mutex, last>> /\ UNCHANGED backendVars /\ UNCHANGED wrapperUnused

\* The deferred lfu.mutex.Unlock() of Store and Remove, and the return.
WrapperUnlock(t) ==
  /\ ~panicked
  /\ threads[t].pc = "done"
  /\ mutex' = [mutex EXCEPT !.lfu = {}]
  /\ threads' = [threads EXCEPT ![t].pc = "idle"]
  /\ last' = Quiescent
  /\ UNCHANGED lfu /\ UNCHANGED backendVars /\ UNCHANGED wrapperUnused

\* What lfu.isEmpty() may give to a reader without lfu.mutex: whether the heap
\* is empty, and FALSE while another thread is in heap.Push, whose append
\* stores the new length before it stores the item.
EmptyReads(t) ==
  {lfuIsEmpty(LfuSelf)}
    \cup (IF \E w \in Threads \ {t} : threads[w].pc = "push" THEN {FALSE} ELSE {})

\* GetLeastFrequentlyUsedKey takes no lock and reads lfu.heap twice: its length
\* in lfu.isEmpty(), and then lfu.heap[0].value.  This is the first read: nil
\* is returned for a heap read as empty.
WrapperIsEmpty(t) ==
  /\ ~panicked
  /\ threads[t].pc = "calling" /\ threads[t].op = "GetLeastFrequentlyUsedKey"
  /\ \E empty \in EmptyReads(t) :
       threads' = [threads EXCEPT ![t].pc = IF empty THEN "idle" ELSE "readRoot"]
  /\ UNCHANGED <<mutex, lfu, last>> /\ UNCHANGED backendVars /\ UNCHANGED wrapperUnused

\* What reading lfu.heap[0].value may give: the value of the item in slot 0,
\* and Panic when the heap is empty: for an index out of range, or for the nil
\* in slot 0 of a heap whose length heap.Push has stored before the item.  The
\* read races with the heap operation another thread is in: heap.Pop, and
\* heap.Remove of slot 0, first swap the last item into slot 0, and lfuHeap.Pop
\* sets the last slot to nil before it shortens the slice, so that the read of
\* a heap of one item may find nil in slot 0, and panics on its value.
RootReads(t) ==
  LET n == HeapLen(lfu.heap) - 1
      writers == {w \in Threads \ {t} :
                    \/ threads[w].pc = "pop"
                    \/ /\ threads[w].pc = "heapRemove"
                       /\ HeapIndex(lfu.heap, threads[w].key) = 0}
  IN IF n < 0 THEN {Panic}
     ELSE {At(lfu.heap, 0).value}
            \cup (IF writers = {} THEN {}
                  ELSE IF n = 0 THEN {Panic}
                  ELSE {At(lfu.heap, n).value})

\* The second read of GetLeastFrequentlyUsedKey, and its return or its panic.
WrapperReadRoot(t) ==
  /\ ~panicked
  /\ threads[t].pc = "readRoot"
  /\ \E read \in RootReads(t) :
       /\ panicked' = (read = Panic)
       /\ threads' = IF read = Panic THEN threads
                     ELSE [threads EXCEPT ![t].pc = "idle", ![t].obs = {read}]
  /\ UNCHANGED <<mutex, lfu, last>> /\ UNCHANGED <<cacheMap, updateChannels, waiting>>
  /\ UNCHANGED wrapperUnused

\* updateSignalerRoutine of the update timer of DirectKey.
WrapperUpdateTimerFire ==
  /\ UpdateTimerFire(DirectKey)

\* updateRoutine of DirectKey, from m.mutex.Lock() to its end.
WrapperUpdateRoutine ==
  /\ mutex.storage = {}
  /\ \/ UpdateRoutine(DirectKey)
     \/ \E fn \in UpdateFuncs : SupersededUpdateRoutine(DirectKey, fn)

WrapperNext ==
  \/ \E t \in Threads, op \in {"Store", "Remove"}, key \in WrapperKeys : WrapperCall(t, op, key)
  \/ \E t \in Threads, op \in {"Keys", "GetLeastFrequentlyUsedKey"} : WrapperCall(t, op, NoKey)
  \/ \E t \in Threads, op \in {"StoreWithUpdate", "DirectRemove"} : WrapperCall(t, op, DirectKey)
  \/ \E t \in Threads : WrapperLock(t)
  \/ \E t \in Threads : BackendLock(t)
  \/ \E t \in Threads : BackendBody(t)
  \/ \E t \in Threads : WrapperPush(t)
  \/ \E t \in Threads : WrapperPop(t)
  \/ \E t \in Threads : WrapperHeapRemove(t)
  \/ \E t \in Threads : WrapperUnlock(t)
  \/ \E t \in Threads : WrapperIsEmpty(t)
  \/ \E t \in Threads : WrapperReadRoot(t)
  \/ WrapperUpdateTimerFire
  \/ WrapperUpdateRoutine

WrapperSpec == WrapperInit /\ [][WrapperNext]_vars

\* Fair scheduling: a thread that can take a step takes one; sync.Mutex hands a
\* lock that is freed again and again to a thread that keeps waiting for it
\* (its starvation mode); a signaled routine runs.
WrapperFairness ==
  /\ \A t \in Threads :
       /\ SF_vars(WrapperLock(t))
       /\ SF_vars(BackendLock(t))
       /\ WF_vars(BackendBody(t))
       /\ WF_vars(WrapperPush(t) \/ WrapperPop(t) \/ WrapperHeapRemove(t))
       /\ WF_vars(WrapperUnlock(t))
       /\ WF_vars(WrapperIsEmpty(t))
       /\ WF_vars(WrapperReadRoot(t))
  /\ WF_vars(WrapperUpdateTimerFire)
  /\ SF_vars(WrapperUpdateRoutine)
  /\ \A fn \in UpdateFuncs :
       SF_vars(mutex.storage = {} /\ SupersededUpdateRoutine(DirectKey, fn))

FairWrapperSpec == WrapperSpec /\ WrapperFairness

\* ----------------------------------------------------------------- claims

\* The mapping and every timer are what they were.
NothingChanged == UNCHANGED <<cacheMap, removeChannels, updateChannels, waiting>>

\* The last caller operation was op on key k and returned err; background
\* routines do not touch last, so no caller operation has happened since.
LastWas(op, k, err) == last.op = op /\ last.key = k /\ last.err = err

\* An expiration routine for k whose channel was superseded waits for the mutex.
ExpireWaits(k) == BagIn([kind |-> "expire", key |-> k, fn |-> NilFunc], waiting)

\* C1: once Expire(k, ttl2) with ttl2 > 0 has returned (and no caller operation
\* has followed), an expiration routine of a timer installed before the call
\* never removes k.
C1_ExpireRearm ==
  [][\A k \in Keys :
       (LastWas("Expire", k, Nil) /\ Has(cacheMap, k) /\ SupersededExpireRoutine(k))
         => Has(cacheMap', k)]_vars

\* C2: after Remove(k), Replace(k, v), ReplaceWithExpiration or ReplaceWithUpdate
\* has returned, a routine of a timer installed for k before the call leaves the
\* entry mapping as it is.
C2_SupersededNoOp ==
  [][\A k \in Keys :
       (/\ \E op \in {"Remove", "Replace", "ReplaceWithExpiration", "ReplaceWithUpdate"} :
             LastWas(op, k, Nil)
        /\ \/ SupersededExpireRoutine(k)
           \/ \E fn \in UpdateFuncs : SupersededUpdateRoutine(k, fn))
         => cacheMap' = cacheMap]_vars

\* C3: an entry stored by StoreWithExpiration(k, v, ttl) stays, with its value,
\* as long as its expiration timer has not fired and no caller operation follows.
C3_TtlLaw ==
  [][\A k \in Keys :
       (/\ LastWas("StoreWithExpiration", k, Nil)
        /\ Has(cacheMap, k)
        /\ Has(removeChannels, k) /\ removeChannels[k].st = "armed"
        /\ last' = last)
         => (Has(cacheMap', k) /\ cacheMap'[k] = cacheMap[k])]_vars

\* C4: for a key stored by StoreWithUpdate (no caller operation since), each run
\* of its update routine replaces the current value c by f(c) and re-arms the
\* timer.
C4_UpdateLaw ==
  [][\A k \in Keys :
       (LastWas("StoreWithUpdate", k, Nil) /\ UpdateRoutine(k))
         => (/\ ~panicked'
             /\ Has(cacheMap, k) /\ Has(cacheMap', k)
             /\ cacheMap'[k] = ApplyFunc(updateChannels[k].fn, cacheMap[k])
             /\ Has(updateChannels', k) /\ updateChannels'[k].st = "armed")]_vars

\* C5: a Store made on a key that was present has failed with AlreadyExists and
\* has left the mapping and every timer as they were.
C5_StoreNoOverwrite ==
  (last.op = "Store" /\ last.had) => (last.err = AlreadyExists /\ last.same)

\* A Store has been made on a key that was present and time-limited, and the
\* entry and its timer reference are still there.
C5_Witness ==
  /\ last.op = "Store" /\ last.had
  /\ Has(cacheMap, last.key) /\ Has(removeChannels, last.key)

\* C6: a Get or a Remove made on a key that was not present has failed with
\* DoesNotExist (Get returning no value) and has left the mapping and every
\* timer as they were.
C6_AbsentKey ==
  (last.op \in {"Get", "Remove"} /\ ~last.had)
    => (/\ last.err = DoesNotExist
        /\ last.val = NilVal
        /\ last.same)

\* A Remove has been made on a key that had expired and whose timer reference
\* was still in removeChannels.
C6_Witness ==
  /\ last.op = "Remove" /\ ~last.had
  /\ ~Has(cacheMap, last.key) /\ Has(removeChannels, last.key)

\* C7: Remove(k) then Store(k, v2): the Store succeeds and Get(k) returns v2,
\* also when a routine that was waiting for the mutex runs before the Get.
C7_StoreAfterRemove ==
  [][\A k \in Keys, v2 \in Vals :
       (LastWas("Remove", k, Nil) /\ Store(k, v2))
         => (/\ last'.err = Nil
             /\ get(Self', k) = [val |-> v2, err |-> Nil]
             /\ ExpireWaits(k)' =>
                  get(expireRoutine(Self', k), k) = [val |-> v2, err |-> Nil])]_vars

\* C8: Expire(k, 0) on a present key succeeds and removes k.
C8_ExpireZero ==
  [][\A k \in Keys :
       (Expire(k, 0) /\ Has(cacheMap, k))
         => (last'.err = Nil /\ ~Has(cacheMap', k))]_vars

\* C9: a StoreWithExpiration made with ttl <= 0 has failed with
\* NonPositivePeriod, one made with ttl > 0 on a key that was present has failed
\* with AlreadyExists, and both have left the mapping and every timer as they
\* were.
C9_StoreWithExpirationErrors ==
  last.op = "StoreWithExpiration" =>
    /\ last.ttl <= 0 => (last.err = NonPositivePeriod /\ last.same)
    /\ (last.ttl > 0 /\ last.had) => (last.err = AlreadyExists /\ last.same)

\* A StoreWithExpiration with ttl <= 0 has been made on a key that was absent:
\* there is no entry and no timer reference for it.
C9_Witness ==
  /\ last.op = "StoreWithExpiration" /\ last.ttl <= 0 /\ ~last.had
  /\ ~Has(cacheMap, last.key) /\ ~Has(removeChannels, last.key)

\* C10: a StoreWithUpdate made without an update function has failed with
\* NilUpdateFunc, else one made with period <= 0 has failed with
\* NonPositivePeriod, else one made on a key that was present has failed with
\* AlreadyExists; each has left the mapping and every timer as they were.
C10_StoreWithUpdateErrors ==
  last.op = "StoreWithUpdate" =>
    /\ last.fn = NilFunc => (last.err = NilUpdateFunc /\ last.same)
    /\ (last.fn # NilFunc /\ last.ttl <= 0) => (last.err = NonPositivePeriod /\ last.same)
    /\ (last.fn # NilFunc /\ last.ttl > 0 /\ last.had)
         => (last.err = AlreadyExists /\ last.same)

\* A StoreWithUpdate with an update function and a positive period has been made
\* on a key that was present and permanent: the key has no update timer.
C10_Witness ==
  /\ last.op = "StoreWithUpdate" /\ last.fn # NilFunc /\ last.ttl > 0 /\ last.had
  /\ Has(cacheMap, last.key) /\ ~Has(updateChannels, last.key)

\* C11: Replace(k, v) on an absent key fails with DoesNotExist and changes
\* nothing; on a present key it succeeds, get(k) then returns v, and the key set
\* is what it was.
C11_Replace ==
  [][\A k \in Keys, v \in InputVals :
       (last'.op = "Replace" /\ Replace(k, v)) =>
         IF Has(cacheMap, k)
         THEN /\ last'.err = Nil
              /\ get(Self', k) = [val |-> v, err |-> Nil]
              /\ keys(Self') = keys(Self)
         ELSE /\ last'.err = DoesNotExist
              /\ NothingChanged]_vars

\* A Replace with a new value has succeeded on a key that was time-limited: the
\* key holds the new value and has no timer reference any more.
C11_Witness ==
  /\ last.op = "Replace" /\ last.had /\ last.err = Nil /\ ~last.same
  /\ Has(cacheMap, last.key) /\ ~Has(removeChannels, last.key)
  /\ BagCardinality(waiting) = 1

\* C12: in the legacy backend, after Replace(k, v, 0) has returned on a present
\* key (and no caller operation has followed), k stays stored with the value it
\* has: no background goroutine removes or changes it.
C12_LegacyReplacePermanent ==
  [][\A k \in Keys :
       (/\ LastWas("Replace", k, Nil) /\ last.ttl = 0 /\ last.had
        /\ Has(cacheMap, k)
        /\ LegacyBackground)
         => (Has(cacheMap', k) /\ cacheMap'[k] = cacheMap[k])]_vars

\* C13: when Clear returns, no key is present, removeChannels and updateChannels
\* hold no reference, and no routine of a timer installed before the Clear is
\* left that will still act on the mapping.
C13_Clear ==
  [][(last'.op = "Clear" /\ Clear) =>
       (/\ last'.err = Nil
        /\ keys(Self') = {}
        /\ \A k \in Keys : get(Self', k).err = DoesNotExist
        /\ removeChannels' = EmptyMap /\ updateChannels' = EmptyMap
        /\ waiting' = EmptyBag)]_vars

\* C14: a Get, successful or failing, leaves the mapping, the timer references
\* and the pending timers and routines as they were.
C14_GetFrame ==
  [][\A k \in Keys : (last'.op = "Get" /\ Get(k)) => NothingChanged]_vars

\* A Get has succeeded on a time-limited key whose timer has fired and whose
\* routine has not run yet: the key is still there, the routine still pending.
C14_Witness ==
  /\ last.op = "Get" /\ last.err = Nil /\ last.val \in Vals
  /\ Has(cacheMap, last.key)
  /\ Has(removeChannels, last.key) /\ removeChannels[last.key].st = "proceed"

\* C15: with threads calling Store, Get and Remove concurrently on pairwise
\* distinct keys, no two methods ever run at once (no data race ends the
\* process), every call's result is its result in the sequential order in which
\* the methods ran, and the entries are those of that sequential run.
C15_Linearizable ==
  /\ ~panicked
  /\ \A t \in Threads :
       threads[t].pc \in {"ran", "idle"} =>
         (threads[t].err = threads[t].wantErr /\ threads[t].out = threads[t].wantVal)
  /\ keys(Self) = {t \in Threads : threads[t].seq # NilVal}
  /\ \A t \in keys(Self) : cacheMap[t] = threads[t].seq

\* Every thread has made all its calls, a thread's method has run, and another
\* thread waits for the mutex while it is held.
C15_Witness ==
  /\ \A t \in Threads : threads[t].calls = MaxCalls
  /\ \E t, u \in Threads :
       /\ threads[t].pc = "ran" /\ mutex = "thread"
       /\ threads[u].pc = "calling"
       /\ threads[t].err = AlreadyExists
  /\ keys(Self) # {}

\* The keys the wrapper holds, most recently used first: the keys of the nodes
\* the backend's items point to, in list order.
LruOrder(list) ==
  LET held == SelectSeq(list, LAMBDA n : n.own)
  IN [i \in DOMAIN held |-> held[i].key]

\* C16: LRU eviction law.  A Store(k, v) of a key the cache does not hold, made
\* while the cache holds exactly capacity entries, succeeds, evicts exactly the
\* least-recently-used key and leaves the cache holding exactly capacity
\* entries, whichever operations came before.
C16_EvictionLaw ==
  [][\A k \in LruKeys, v \in InputVals :
       (/\ last'.op = "Store" /\ LruStore(k, v)
        /\ lru.raw = {}
        /\ ~Has(cacheMap, k)
        /\ Cardinality(keys(Self)) = lru.capacity)
       => /\ last'.err = Nil
          /\ Cardinality(keys(Self')) = lru.capacity
          /\ \E e \in keys(Self) :
               /\ keys(Self') = (keys(Self) \ {e}) \cup {k}
               /\ LruOrder(lru.list) # <<>> => e = Back(LruOrder(lru.list))]_vars

\* The sequence without the entries equal to key.
Without(seq, key) == SelectSeq(seq, LAMBDA x : x # key)

\* C17: LRU recency law.  A successful Get(k) makes k the most-recently-used
\* key and keeps the relative order of all other keys; a Get of an absent key
\* fails with DoesNotExist and leaves the ordering sequence unchanged.
C17_RecencyLaw ==
  [][\A k \in LruKeys :
       (last'.op = "Get" /\ LruGet(k) /\ lru.raw = {})
       => IF Has(cacheMap, k)
          THEN /\ last'.err = Nil
               /\ GetMostRecentlyUsedKey(LruSelf') = k
               /\ Without(LruOrder(lru.list'), k) = Without(LruOrder(lru.list), k)
          ELSE /\ last'.err = DoesNotExist
               /\ lru.list' = lru.list]_vars

\* The keys of the list's nodes, front first.
ListKeys(list) == [i \in DOMAIN list |-> list[i].key]

\* C18: LRU Store rollback.  When Store(k, v) fails because the backend store
\* fails (k is already present), the ordering sequence, the item count and the
\* backend contents are what they were before the call.
C18_StoreRollback ==
  [][\A k \in LruKeys, v \in InputVals :
       (last'.op = "Store" /\ LruStore(k, v) /\ lru.raw = {} /\ Has(cacheMap, k))
       => /\ last'.err = AlreadyExists
          /\ ListKeys(lru.list') = ListKeys(lru.list)
          /\ lruCount(LruSelf') = lruCount(LruSelf)
          /\ cacheMap' = cacheMap]_vars

\* C19: LRU Clear.  After Clear() on a cache holding any number of entries the
\* backend holds no keys, the ordering sequence is empty, Count() is 0 and
\* IsEmpty() is true; a Remove of any key that follows fails and leaves Count()
\* at 0.
C19_Clear ==
  [][/\ (last'.op = "Clear" /\ LruClear /\ lru.raw = {})
        => /\ last'.err = Nil
           /\ lruKeys(LruSelf') = {}
           /\ lru.list' = <<>>
           /\ lruCount(LruSelf') = 0
           /\ lruIsEmpty(LruSelf')
     /\ \A k \in LruKeys :
          (last.op = "Clear" /\ last'.op = "Remove" /\ LruRemove(k))
          => /\ last'.err = DoesNotExist
             /\ lruCount(LruSelf') = 0]_vars

\* C20: LRU construction guard.  NewLruWithCustomCache(capacity, backend) fails
\* with CacheNotEmpty exactly when the supplied backend already holds at least
\* one key, and returns a usable wrapper when the backend is empty.
C20_ConstructionGuard ==
  [][\A capacity \in 1 .. MaxCapacity :
       (last'.op = "NewLruWithCustomCache" /\ NewLruWithCustomCache(capacity))
       => /\ last'.err = CacheNotEmpty <=> keys(Self) # {}
          /\ keys(Self) = {} => (last'.err = Nil /\ lru'.made)]_vars

\* C21: LRU introspection.  After any sequence of calls Count() equals the
\* number of keys the backend holds and never exceeds capacity, IsFull() is
\* true exactly when Count() equals capacity, IsEmpty() exactly when Count() is
\* 0; Count grows by 1 on a Store below capacity, is unchanged by a Store at
\* capacity, and drops by 1 on a successful Remove.
C21_Introspection ==
  [][(lru.made /\ lru.raw = {} /\ LruNext)
     => /\ lruCount(LruSelf') = Cardinality(lruKeys(LruSelf'))
        /\ lruCount(LruSelf') <= lru.capacity
        /\ lruIsFull(LruSelf') <=> lruCount(LruSelf') = lru.capacity
        /\ lruIsEmpty(LruSelf') <=> lruCount(LruSelf') = 0
        /\ (last'.op = "Store" /\ last'.err = Nil /\ lruCount(LruSelf) < lru.capacity)
           => lruCount(LruSelf') = lruCount(LruSelf) + 1
        /\ (last'.op = "Store" /\ lruCount(LruSelf) = lru.capacity)
           => lruCount(LruSelf') = lruCount(LruSelf)
        /\ (last'.op = "Remove" /\ last'.err = Nil)
           => lruCount(LruSelf') = lruCount(LruSelf) - 1]_vars

\* C22: LRU Replace.  Replace(k, v) on a present key succeeds, makes Get(k)
\* return v, makes k the most-recently-used key, evicts no other key and leaves
\* Count() unchanged, also when the cache is full; on an absent key it fails
\* with DoesNotExist and changes nothing.
C22_Replace ==
  [][\A k \in LruKeys, v \in InputVals :
       (last'.op = "Replace" /\ LruReplace(k, v))
       => IF Has(cacheMap, k)
          THEN /\ last'.err = Nil
               /\ lruGet(LruSelf', k).val = v /\ lruGet(LruSelf', k).err = Nil
               /\ GetMostRecentlyUsedKey(LruSelf') = k
               /\ lruKeys(LruSelf') = lruKeys(LruSelf)
               /\ lruCount(LruSelf') = lruCount(LruSelf)
          ELSE /\ last'.err = DoesNotExist
               /\ lru' = lru /\ cacheMap' = cacheMap]_vars

\* The lfuHeapItems of a heap, and the frequency of the item of key.
HeapItems(h) == {[value |-> h[i].value, frequency |-> h[i].frequency] : i \in DOMAIN h}
Frequency(h, key) == At(h, HeapIndex(h, key)).frequency

\* C23: LFU eviction law.  When a Store pushes the item count above capacity,
\* exactly one entry is evicted and it has the minimum frequency among the
\* entries in the structure at that moment, the new one included; the other
\* entries stay as they were.
C23_LfuEvictionLaw ==
  [][\A k \in LfuKeys, v \in InputVals :
       (/\ last'.op = "Store" /\ LfuStore(k, v)
        /\ ~Has(cacheMap, k)
        /\ lfuCount(LfuSelf) = lfu.capacity)
       => LET items == HeapItems(lfu.heap) \cup {[value |-> k, frequency |-> 0]}
          IN /\ last'.err = Nil
             /\ \E e \in items :
                  /\ HeapItems(lfu.heap') = items \ {e}
                  /\ lfuKeys(LfuSelf') = (lfuKeys(LfuSelf) \cup {k}) \ {e.value}
                  /\ \A x \in items : e.frequency <= x.frequency]_vars

\* A Store into a full cache of two has just evicted a key that was never read
\* and kept one that was.
C23_Witness ==
  /\ last.op = "Store" /\ last.err = Nil
  /\ last.evicted \notin {NoKey, last.key}
  /\ lfu.capacity = 2 /\ lfuCount(LfuSelf) = 2
  /\ \E i \in DOMAIN lfu.heap : lfu.heap[i].frequency = MaxFrequency
  /\ Frequency(lfu.heap, last.key) = 0

\* C24: LFU Store then Get.  When Store(k, v) returns without error, k is held
\* by the cache and the next Get(k) returns v, also when the cache was full and
\* the other entries have been accessed before.
C24_LfuStoreThenGet ==
  [][\A k \in LfuKeys, v \in InputVals :
       (last'.op = "Store" /\ LfuStore(k, v) /\ last'.err = Nil)
       => /\ k \in lfuKeys(LfuSelf')
          /\ lfuGet(LfuSelf', k).err = Nil
          /\ lfuGet(LfuSelf', k).val = v]_vars

\* C25: LFU frequency counter.  An entry's frequency is 0 right after its
\* Store, grows by exactly 1 on each successful Get of its key, and is changed
\* by no other operation: a failing call, or a call on another key, leaves it
\* unchanged.
C25_LfuFrequency ==
  [][(lfu.made /\ LfuNext)
     => /\ \A x \in lfuKeys(LfuSelf') \ lfuKeys(LfuSelf) : Frequency(lfu.heap', x) = 0
        /\ \A x \in lfuKeys(LfuSelf') \cap lfuKeys(LfuSelf) :
             Frequency(lfu.heap', x) =
               IF last'.op = "Get" /\ last'.key = x
               THEN Frequency(lfu.heap, x) + 1
               ELSE IF last'.op = "Replace" /\ last'.key = x
               THEN 0
               ELSE Frequency(lfu.heap, x)]_vars

\* A Get has just brought its key to MaxFrequency reads while another key held
\* has never been read.
C25_Witness ==
  /\ last.op = "Get" /\ last.err = Nil
  /\ lfuCount(LfuSelf) = 2
  /\ Frequency(lfu.heap, last.key) = MaxFrequency
  /\ \E x \in lfuKeys(LfuSelf) : x # last.key /\ Frequency(lfu.heap, x) = 0

\* C26: LFU construction guard.  NewLfuWithCustomCache(capacity, backend) fails
\* with CacheNotEmpty exactly when the supplied backend already holds at least
\* one key, and returns a usable wrapper when the backend is empty.
C26_LfuConstructionGuard ==
  [][\A capacity \in 1 .. MaxLfuCapacity :
       (last'.op = "NewLfuWithCustomCache" /\ NewLfuWithCustomCache(capacity))
       => /\ last'.err = CacheNotEmpty <=> keys(Self) # {}
          /\ keys(Self) # {} => ~lfu'.made
          /\ keys(Self) = {}
             => /\ last'.err = Nil /\ lfu'.made /\ lfu'.capacity = capacity
                /\ \A k \in LfuKeys, v \in InputVals :
                     LET r == lfuStore(LfuSelf', k, v)
                     IN r.err = Nil /\ lfuGet(r.l, k).val = v]_vars

\* The constructor has just refused a backend that holds a key.
C26_Witness ==
  /\ last.op = "NewLfuWithCustomCache" /\ last.err = CacheNotEmpty
  /\ keys(Self) # {} /\ ~lfu.made

\* C27: LFU Clear and introspection.  After Clear() the cache holds no keys,
\* Count() is 0, IsEmpty() is true and a following Store succeeds; after any
\* sequence of operations Count() equals the number of keys in the backend,
\* IsFull() is true exactly when Count() >= capacity and IsEmpty() exactly when
\* Count() is 0.
C27_LfuClearAndCount ==
  [][(lfu.made /\ LfuNext)
     => /\ lfuCount(LfuSelf') = Cardinality(lfuKeys(LfuSelf'))
        /\ lfuIsFull(LfuSelf') <=> lfuCount(LfuSelf') >= lfu.capacity
        /\ lfuIsEmpty(LfuSelf') <=> lfuCount(LfuSelf') = 0
        /\ last'.op = "Clear"
           => /\ last'.err = Nil
              /\ lfuKeys(LfuSelf') = {}
              /\ lfuCount(LfuSelf') = 0
              /\ lfuIsEmpty(LfuSelf')
              /\ \A k \in LfuKeys, v \in InputVals :
                   LET r == lfuStore(LfuSelf', k, v)
                   IN r.err = Nil /\ lfuKeys(r.l) = {k}]_vars

\* A Clear has just emptied a cache that held keys.
C27_Witness ==
  /\ last.op = "Clear" /\ last.err = Nil /\ last.evicted # NoKey
  /\ lfu.made /\ lfuKeys(LfuSelf) = {} /\ lfuCount(LfuSelf) = 0

\* C28: directory-backed cache.  Once Clear() has succeeded, every call on the
\* instance, with any arguments, fails with ClearedCache, and no background
\* routine of a timer installed before the Clear changes anything.
C28_ClearedCache ==
  [][/\ (dir.cleared /\ DirCaller)
        => /\ last'.err = ClearedCache
           /\ UNCHANGED <<cacheMap, removeChannels, updateChannels, dir, panicked>>
     /\ (dir.cleared /\ DirBackground)
        => UNCHANGED <<cacheMap, removeChannels, updateChannels, dir, panicked>>]_vars

\* C29: Redis-backed cache.  Replace(K, v) on a key the instance does not track
\* fails with an error and does not start tracking K; Store(K, v2) on a key the
\* instance already tracks fails and leaves the stored value unchanged.
C29_RedisReplaceAndStore ==
  [][\A k \in Keys, v \in InputVals :
       /\ (last'.op = "Replace" /\ RedisReplace(k, v) /\ k \notin redisKeys(RedisSelf))
          => /\ last'.err # Nil
             /\ k \notin redisKeys(RedisSelf')
       /\ (last'.op = "Store" /\ RedisStore(k, v) /\ k \in redisKeys(RedisSelf))
          => /\ last'.err # Nil
             /\ cacheMap' = cacheMap]_vars

\* C30: Redis-backed cache.  After a successful Replace(K, v) of a time-limited
\* key, or after a successful Expire(K, ttl2) re-arms it, the expiration routine
\* installed earlier for K never untracks K while the server still holds K: after
\* Replace the routine of K's timer leaves K tracked, and after Expire the
\* routine of the timer that Expire superseded leaves K tracked.
C30_RedisStaleRoutine ==
  [][\A k \in Keys :
       /\ (/\ last.op = "Replace" /\ last.key = k /\ last.err = Nil
           /\ RedisExpireRoutine(k)
           /\ k \in redis.keysSet /\ Has(cacheMap, k) /\ k \notin redis.volatile)
          => k \in redis.keysSet'
       /\ (/\ last.op = "Expire" /\ last.key = k /\ last.err = Nil
           /\ RedisSupersededExpireRoutine(k)
           /\ k \in redis.keysSet /\ Has(cacheMap, k))
          => k \in redis.keysSet']_vars

\* C31: in-memory backend.  In every state, removeChannels or updateChannels
\* holds a reference for key K only if K is present and the timer the reference
\* belongs to is still to act (K is time-limited or self-updating): no
\* reference is left for a key whose expiration timer has fired and whose
\* routine has run, for a removed key, or for a permanent key.
C31_TimerReference ==
  \A k \in Keys :
    /\ Has(removeChannels, k) => (Has(cacheMap, k) /\ removeChannels[k].st # "closed")
    /\ Has(updateChannels, k) => (Has(cacheMap, k) /\ updateChannels[k].st # "closed")

\* C32: in-memory backend.  Under every interleaving of caller operations with
\* update-timer firings, the update routine, once it holds the lock, finds its
\* key present and re-stores it: it never reaches one of its panic branches.
C32_UpdateNeverPanics ==
  [][\A key \in Keys, fn \in UpdateFuncs :
       (UpdateRoutine(key) \/ SupersededUpdateRoutine(key, fn)) => ~panicked']_vars

\* C33: legacy backend.  Canceling a key's timer never blocks and never panics:
\* every Remove, Replace, Expire, StoreWithExpiration and StoreWithUpdate call
\* returns, also when the timer installed earlier for the key has fired or has
\* been canceled before, and no caller is left holding the backend lock.
C33_LegacyKillReturns ==
  /\ last.op \in {"Remove", "Replace", "Expire", "StoreWithExpiration", "StoreWithUpdate"}
       => last.err \notin {Blocked, Panic}
  /\ mutex = "free"

\* C34: LRU structure invariant.  After every Store, Get, Remove, Replace and
\* Clear call, successful or failing, the set of keys in the ordering list
\* equals the set of keys in the backend, no key occurs twice in the list, and
\* the list length equals the item count and is at most capacity.
C34_LruStructure ==
  (lru.made /\ lru.raw = {} /\ ~panicked
   /\ last.op \in {"Store", "Get", "Remove", "Replace", "Clear"})
  => /\ {lru.list[i].key : i \in DOMAIN lru.list} = DOMAIN cacheMap
     /\ \A i, j \in DOMAIN lru.list : lru.list[i].key = lru.list[j].key => i = j
     /\ Len(lru.list) = lru.numberOfItems
     /\ lru.numberOfItems <= lru.capacity

\* C35: LRU key getters.  Whenever the cache is non-empty, after any sequence
\* of operations including evictions, GetLeastRecentlyUsedKey returns a key the
\* cache holds, which is the key the next overflowing Store evicts, and
\* GetMostRecentlyUsedKey returns the key of the last successful Store, Get or
\* Replace.
C35_LruKeyGetters ==
  [][/\ (lru.made /\ lru.raw = {} /\ ~panicked /\ keys(Self) # {})
        => GetLeastRecentlyUsedKey(LruSelf) \in keys(Self)
     /\ \A k \in LruKeys, v \in InputVals :
          (/\ last'.op = "Store" /\ LruStore(k, v)
           /\ lru.raw = {} /\ ~Has(cacheMap, k) /\ lruIsFull(LruSelf)
           /\ last'.err = Nil)
          => keys(Self') = (keys(Self) \ {GetLeastRecentlyUsedKey(LruSelf)}) \cup {k}
     /\ \A k \in LruKeys, v \in InputVals :
          (/\ last'.op \in {"Store", "Get", "Replace"}
           /\ (LruStore(k, v) \/ LruGet(k) \/ LruReplace(k, v))
           /\ lru.raw = {} /\ last'.err = Nil)
          => GetMostRecentlyUsedKey(LruSelf') = k]_vars

\* C36: LFU minimum at the root.  After every Store, Get, Remove, Replace and
\* Clear call the heap satisfies the min-heap order on frequency: for a
\* non-empty cache GetLeastFrequentlyUsedKey returns a held key whose frequency
\* is at most every other entry's, and after Get(k), if another entry has a
\* frequency strictly lower than k's new frequency, it does not return k.
C36_LfuMinHeap ==
  lfu.made =>
    /\ \A j \in 1 .. HeapLen(lfu.heap) - 1 : ~Less(lfu.heap, j, (j - 1) \div 2)
    /\ ~lfuIsEmpty(LfuSelf) =>
         /\ GetLeastFrequentlyUsedKey(LfuSelf) \in lfuKeys(LfuSelf)
         /\ \A x \in lfuKeys(LfuSelf) :
              Frequency(lfu.heap, GetLeastFrequentlyUsedKey(LfuSelf)) <= Frequency(lfu.heap, x)
    /\ (/\ last.op = "Get" /\ last.err = Nil
        /\ \E x \in lfuKeys(LfuSelf) :
             Frequency(lfu.heap, x) < Frequency(lfu.heap, last.key))
       => GetLeastFrequentlyUsedKey(LfuSelf) # last.key

\* A Get has just raised the frequency of one of three entries to the highest
\* while the two others were never read: the key read is not at the root.
C36_Witness ==
  /\ last.op = "Get" /\ last.err = Nil
  /\ lfuCount(LfuSelf) = 3
  /\ Frequency(lfu.heap, last.key) = MaxFrequency
  /\ \A x \in lfuKeys(LfuSelf) \ {last.key} : Frequency(lfu.heap, x) = 0
  /\ GetLeastFrequentlyUsedKey(LfuSelf) # last.key

\* C37: LFU structure invariant.  After every Store, Get, Remove, Replace and
\* Clear call, successful or failing, the set of keys in the priority structure
\* equals the set of keys in the backend, each key once, and the size is at
\* most capacity: Remove deletes exactly the removed key's item from both, and
\* a failing duplicate Store adds none.
C37_LfuStructure ==
  [][/\ lfu.made =>
          /\ {lfu.heap[i].value : i \in DOMAIN lfu.heap} = lfuKeys(LfuSelf)
          /\ \A i, j \in DOMAIN lfu.heap : lfu.heap[i].value = lfu.heap[j].value => i = j
          /\ lfuCount(LfuSelf) <= lfu.capacity
     /\ \A k \in LfuKeys :
          (last'.op = "Remove" /\ LfuRemove(k) /\ last'.err = Nil)
          => /\ lfuKeys(LfuSelf') = lfuKeys(LfuSelf) \ {k}
             /\ HeapItems(lfu.heap') = {x \in HeapItems(lfu.heap) : x.value # k}
     /\ \A k \in LfuKeys, v \in InputVals :
          (last'.op = "Store" /\ LfuStore(k, v) /\ Has(cacheMap, k))
          => /\ last'.err = AlreadyExists
             /\ HeapItems(lfu.heap') = HeapItems(lfu.heap)
             /\ cacheMap' = cacheMap]_vars

\* A Remove has just taken one of three entries, and the two it left have
\* different frequencies.
C37_Witness ==
  /\ last.op = "Remove" /\ last.err = Nil /\ last.evicted = last.key
  /\ lfu.capacity = 3 /\ lfuCount(LfuSelf) = 2
  /\ \E x \in lfuKeys(LfuSelf) : Frequency(lfu.heap, x) = MaxFrequency
  /\ \E x \in lfuKeys(LfuSelf) : Frequency(lfu.heap, x) = 0

\* C40: LFU back-reference.  After every heap operation (Push, Pop, Swap, and
\* the heap.Init and heap.Remove calls built on them) every item in the heap
\* has an index field equal to its slot in the heap slice, and an item popped
\* from the heap has index -1.
C40_LfuBackReference ==
  lfu.made =>
    /\ \A i \in 0 .. HeapLen(lfu.heap) - 1 : At(lfu.heap, i).index = i
    /\ lfu.heap # <<>> => heapPop(lfu.heap).item.index = -1

\* The wrapper as it is at the points between operations that a read made now
\* may show: as it was when lfu.mutex was last free, and as the operation that
\* holds lfu.mutex leaves it.
WrapperPoints ==
  {last} \cup {IF threads[u].op = "Store" THEN lfuStore(last, threads[u].key, 0).l
               ELSE lfuRemove(last, threads[u].key).l : u \in {w \in Threads : mutex.lfu = {w}}}

\* C38: wrapper atomicity.  A thread calling Keys() or
\* GetLeastFrequentlyUsedKey on a wrapper while another thread runs Store or
\* Remove on it never observes an intermediate state of that operation: Keys()
\* returns no more than capacity keys of the wrapper, and what either returns
\* is what the wrapper holds at a point between operations.
C38_WrapperAtomicity ==
  [][\A t \in Threads :
       /\ (threads[t].pc = "inKeys" /\ BackendBody(t))
          => /\ Cardinality(threads'[t].obs \cap WrapperKeys) <= lfu.capacity
             /\ \E q \in WrapperPoints :
                  threads'[t].obs \cap WrapperKeys = lfuKeys(q) \cap WrapperKeys
       /\ (threads[t].op = "GetLeastFrequentlyUsedKey"
           /\ (WrapperIsEmpty(t) \/ WrapperReadRoot(t)))
          => /\ ~panicked'
             /\ threads'[t].pc = "idle"
                  => \E q \in WrapperPoints :
                       threads'[t].obs = {GetLeastFrequentlyUsedKey(q)} \ {NoKey}]_vars

\* C39: deadlock freedom of the lock domains.  With the threads calling wrapper
\* and backend operations while the update timer of the backend fires, a thread
\* takes lfu.mutex only when it does not hold m.mutex (the order is wrapper
\* lock, then backend lock), and under fair scheduling every operation a
\* thread has called returns: no thread waits forever.
C39_DeadlockFreedom ==
  /\ [][\A t \in Threads : WrapperLock(t) => mutex.storage # {t}]_vars
  /\ \A t \in Threads : (threads[t].pc # "idle") ~> (threads[t].pc = "idle")

====
